---- MODULE Spec2Model ----
(***************************************************************************)
(* A model of the reorc-mcp command line client: the archive download and  *)
(* merge of a model project, the semantic project sync, the source catalog *)
(* cache of list-sources, the curl transport with its retry loop, the      *)
(* task poller of refresh-sources, the git operations on a project         *)
(* directory with the project commit command, the file operations of the   *)
(* workspace store and the login that saves a new access token.            *)
(*                                                                         *)
(* Each subsystem has its own variables and its own specification; a       *)
(* specification holds the variables of the other subsystems at their idle *)
(* value.                                                                  *)
(***************************************************************************)
EXTENDS Integers, Sequences, FiniteSets, TLC

\* ------------------------------------------------------------------ bounds
\* Number of consecutive download, list-sources or login calls of one
\* behaviour.
MaxCalls == 2
\* Largest value of the retries argument of run_curl_command.
MaxRetries == 3
\* Longest time, in seconds, one status request takes.
MaxLatency == 1
\* Largest number of databases in a list-sources response.
MaxDbs == 2

VARIABLES
    \* local-model-projects/<project_code>: whether the directory exists, and
    \* its tree (path -> node); the files under its .git directory (none when
    \* the project has no version-control metadata)
    projExists, proj, projMeta,
    \* local-model-projects/<project_code>.tar.gz: "absent", "complete", "partial"
    archiveFile,
    \* the order in which the filesystem lists the entries of a directory
    walkOrder,
    \* history of download_dbt_project: the project directory before the last
    \* call, the server's answer to it and its result; whether that answer was
    \* the same as the one to the call before, and that call's status and count;
    \* the number of HTTP requests the last call issued
    dlPre, dlReq, dlRes, dlRepeat, dlPrev, dlCalls, dlRequests

    \* local-semantic-projects/<project_code>: whether the directory exists, and
    \* its tree; local-semantic-projects/<project_code>_semantic.tar.gz
VARIABLES semExists, semTree, semArchive,
    \* history of download-semantic-project: the directory before the last
    \* call, the server's answer to it, its result and the number of calls
    semPre, semReq, semRes, semCalls

    \* run_curl_command / http_get: position in the retry loop, the retries
    \* argument, the attempt counter, last_error, the events so far ("attempt",
    \* "sleep"), the outcome of each attempt, the tuple run_curl_command returned
    \* and the value http_get returned
VARIABLES curlPc, curlRetries, attempt, last_error, curlLog, curlKinds, curlOut,
    curlRet, httpRes

    \* refresh-sources: position in the poll loop, complete_statuses, the time
    \* since start_time, the polls made, the sleeps made and the time slept, the
    \* last poll response, whether a poll has reported a terminal status, and
    \* the value returned
VARIABLES rsPc, rsTerminal, rsElapsed, rsPolls, rsSleeps, rsSlept, rsLastPoll,
    rsTerminalSeen, rsRet, rsTrig

    \* list-sources: the cache directory local-source-databases/<project_code>
    \* (whether it exists, the JSON cache file, the descriptor files by name, a
    \* file of any other name), the position in the command, sources_response,
    \* the index of the database being mirrored, the value returned; the
    \* directory before the call, the names written and whether the directory
    \* was cleared in this call, and the number of calls
VARIABLES lsDirExists, lsCache, lsYaml, lsStray, lsPc, lsResp, lsIdx, lsRet,
    lsPre, lsTouched, lsDeleted, lsCalls

    \* version control of a project directory: whether the directory and its
    \* .git exist, the state of each file as git sees it, the result of the last
    \* operation and the git commands it ran; the state before that operation,
    \* the lines git status printed and the list each landed in, the results
    \* of earlier init calls, and the init before the last operation
VARIABLES gitProj, gitMeta, gitFiles, gitRes, gitCmds, gitPre, gitOut, gitLanded,
    gitPriorInits, gitPrev

    \* the workspace store: whether the model-projects root exists, the node at
    \* every location of the disk, the result of the last file operation; the
    \* disk before it, its path argument and the location it resolved to
VARIABLES foRoot, fs, foRes, foPre, foArg, foTarget

dlVars == <<projExists, proj, projMeta, archiveFile, walkOrder, dlPre, dlReq, dlRes, dlRepeat,
            dlPrev, dlCalls, dlRequests>>

semVars == <<semExists, semTree, semArchive, semPre, semReq, semRes, semCalls>>

curlVars == <<curlPc, curlRetries, attempt, last_error, curlLog, curlKinds, curlOut,
              curlRet, httpRes>>

rsVars == <<rsPc, rsTerminal, rsElapsed, rsPolls, rsSleeps, rsSlept, rsLastPoll,
            rsTerminalSeen, rsRet, rsTrig>>

gitVars == <<gitProj, gitMeta, gitFiles, gitRes, gitCmds, gitPre, gitOut, gitLanded,
             gitPriorInits, gitPrev>>

foVars == <<foRoot, fs, foRes, foPre, foArg, foTarget>>

    \* .cursor/mcp.json: the url of the first server entry, as text; history of
    \* auth login: the url before the last call, the server's answer to it,
    \* what the call returned and the number of calls
VARIABLES cfgUrl, authPre, authResp, authRes, authCalls

authVars == <<cfgUrl, authPre, authResp, authRes, authCalls>>

lsVars == <<lsDirExists, lsCache, lsYaml, lsStray, lsPc, lsResp, lsIdx, lsRet,
            lsPre, lsTouched, lsDeleted, lsCalls>>

vars == <<dlVars, semVars, curlVars, rsVars, lsVars, gitVars, foVars, authVars>>

\* ------------------------------------------------------------ file trees
\* The paths of a project directory: two top-level names, of which "a" may be
\* a directory with entries of its own, themselves files or directories.
Names == {"a", "b"}
Paths1 == {<<x>> : x \in Names}
Paths2 == {<<"a", y>> : y \in Names}
Paths3 == {<<"a", y, z>> : y \in Names, z \in Names}
Paths == Paths1 \cup Paths2 \cup Paths3

NoNode == [kind |-> "none", data |-> 0]
DirNode == [kind |-> "dir", data |-> 0]
FileNode(c) == [kind |-> "file", data |-> c]
\* a file written locally, and a file as the server's archive carries it
LocalFile == FileNode(0)
ArchiveFile == FileNode(1)

IsFile(n) == n.kind = "file"
IsDir(n) == n.kind = "dir"

Parent(p) == SubSeq(p, 1, Len(p) - 1)
Basename(p) == p[Len(p)]

\* A tree is a function on Paths in which a node exists only inside a directory.
WellFormed(t) ==
    \A p \in Paths : (Len(p) > 1 /\ t[p].kind # "none") => IsDir(t[Parent(p)])

EmptyTree == [p \in Paths |-> NoNode]

\* Trees of depth two: "a" and its entries are none, a file or a directory,
\* "b" is none or a file.
TreesOver(file) ==
    { t \in { [p \in Paths |-> IF p \in Paths1 THEN t1[p]
                               ELSE IF p \in Paths2 THEN t2[p] ELSE NoNode]
              : t1 \in [Paths1 -> {NoNode, DirNode, file}],
                t2 \in [Paths2 -> {NoNode, DirNode, file}] }
      : WellFormed(t) /\ ~IsDir(t[<<"b">>]) }

FilesOf(t) == {p \in Paths : IsFile(t[p])}
DirsOf(t) == {p \in Paths : IsDir(t[p])}

\* --------------------------------------------------- download_dbt_project
\* What the server answers to GET /mcp/projects/<code>/download:
\*   "http_error"    a status other than 200
\*   "connect_error" requests raises before a response arrives
\*   "stream_error"  requests raises while the body is being streamed
\*   "corrupt"       200 with a body tarfile cannot open
\*   "archive"       200 with a tar.gz holding `tree`
Orders == {<<"a", "b">>, <<"b", "a">>}
ArchiveTrees == TreesOver(ArchiveFile)
Responses ==
    { [kind |-> k, tree |-> EmptyTree]
        : k \in {"http_error", "connect_error", "stream_error", "corrupt", "truncated"} }
    \cup { [kind |-> "archive", tree |-> t] : t \in ArchiveTrees }
NoResponse == [kind |-> "none", tree |-> EmptyTree]

LocalTrees == TreesOver(LocalFile)

NoResult ==
    [status |-> "none", error |-> "none", files_updated |-> 0, file_count |-> 0,
     directory_count |-> 0, local_only_files_count |-> 0, downloaded |-> {}]
ErrorResult(e) == [NoResult EXCEPT !.status = "error", !.error = e]

\* os.walk(temp_dir), top down: a directory's files first, then each of its
\* subdirectories; the loop body makes the directory in the project (unless it
\* is the top) and then copies the directory's files.
Children(order, dir) ==
    SelectSeq([i \in 1..Len(order) |-> dir \o <<order[i]>>], LAMBDA p : p \in Paths)

FileOps(tree, order, dir) ==
    LET kids == SelectSeq(Children(order, dir), LAMBDA p : IsFile(tree[p]))
    IN  [i \in 1..Len(kids) |-> [op |-> "copy", path |-> kids[i]]]

RECURSIVE WalkDir(_, _, _)
RECURSIVE WalkDirs(_, _, _)
WalkDirs(tree, order, ds) ==
    IF ds = <<>> THEN <<>>
    ELSE WalkDir(tree, order, Head(ds)) \o WalkDirs(tree, order, Tail(ds))

WalkDir(tree, order, dir) ==
    (IF dir = <<>> THEN <<>> ELSE <<[op |-> "makedirs", path |-> dir]>>)
    \o FileOps(tree, order, dir)
    \o WalkDirs(tree, order, SelectSeq(Children(order, dir), LAMBDA p : IsDir(tree[p])))

\* os.makedirs(os.path.join(project_dir, rel_path), exist_ok=True): the parent
\* was made by an earlier step of the walk; an existing directory is accepted,
\* an existing file raises FileExistsError.
MakedirsNoExistOk(st, p) ==
    IF st.t[p].kind # "none" THEN [st EXCEPT !.ok = FALSE]
    ELSE [st EXCEPT !.t[p] = DirNode]

Makedirs(st, p) ==
    IF IsDir(st.t[p]) THEN st
    ELSE IF IsFile(st.t[p]) THEN [st EXCEPT !.ok = FALSE]
    ELSE [st EXCEPT !.t[p] = DirNode]

\* shutil.copy2(temp_file_path, dest_path): when dest_path is a directory the
\* file is copied into it under the source's base name (IsADirectoryError when
\* that is a directory too); otherwise dest_path is created or overwritten.
CopyTarget(t, p) == IF IsDir(t[p]) THEN p \o <<Basename(p)>> ELSE p

Copy2(st, p, c) ==
    LET dest == CopyTarget(st.t, p)
    IN  IF IsDir(st.t[dest])
        THEN [st EXCEPT !.ok = FALSE, !.downloaded = @ \cup {p}]
        ELSE [st EXCEPT !.t[dest] = FileNode(c),
                        !.downloaded = @ \cup {p},
                        !.n = @ + 1]

ApplyOp(tree, st, o) ==
    IF o.op = "makedirs" THEN Makedirs(st, o.path)
    ELSE Copy2(st, o.path, tree[o.path].data)

\* The copy loop: the steps in order, stopping at the first that raises.
RECURSIVE RunOps(_, _, _)
RunOps(tree, ops, st) ==
    IF ops = <<>> \/ ~st.ok THEN st
    ELSE RunOps(tree, Tail(ops), ApplyOp(tree, st, Head(ops)))

\* count_files_and_dirs_recursively: the walk prunes .git, so neither the
\* metadata directory nor anything under it is counted
CountFiles(t) == Cardinality(FilesOf(t))
CountDirs(t) == Cardinality(DirsOf(t))

\* The names of the files a metadata directory may hold.
MetaNames == {"HEAD"}

\* existing_files: os.walk(project_dir) without pruning, so the files under
\* .git are among them
ExistingFiles(pe, pt, meta) ==
    IF pe THEN FilesOf(pt) \cup { <<".git", m>> : m \in meta } ELSE {}

\* if os.path.exists(archive_path): os.remove(archive_path)
RemoveArchiveKeeps(af) == af
RemoveArchive(af) == "absent"

\* The whole of download_dbt_project on a project directory (pe, pt, meta)
\* with af at the archive path: the new directory, the archive file left at
\* its fixed path, the requests issued and the result returned. A "corrupt"
\* archive makes tarfile raise TarError, a "truncated" one makes gzip raise
\* EOFError while the members are read into the temporary directory.
DownloadOutcome(pe, pt, meta, af, order, resp) ==
    LET existing_files == ExistingFiles(pe, pt, meta)
        removed == RemoveArchive(af)
        same(a, r) == [projExists |-> pe, proj |-> pt, archiveFile |-> a,
                       requests |-> 1, res |-> r]
    IN  CASE resp.kind = "http_error" -> same(removed, ErrorResult("http"))
          [] resp.kind = "connect_error" -> same(removed, ErrorResult("network"))
          [] resp.kind = "stream_error" -> same("partial", ErrorResult("network"))
          [] resp.kind = "corrupt" ->
                [projExists |-> TRUE, proj |-> pt, archiveFile |-> "complete",
                 requests |-> 1, res |-> ErrorResult("extract")]
          [] resp.kind = "truncated" ->
                [projExists |-> TRUE, proj |-> pt, archiveFile |-> "complete",
                 requests |-> 1, res |-> ErrorResult("generic")]
          [] OTHER ->
                LET st == RunOps(resp.tree, WalkDir(resp.tree, order, <<>>),
                                 [t |-> pt, ok |-> TRUE, downloaded |-> {}, n |-> 0])
                IN  IF ~st.ok
                    THEN [projExists |-> TRUE, proj |-> st.t, archiveFile |-> "complete",
                          requests |-> 1, res |-> ErrorResult("generic")]
                    ELSE [projExists |-> TRUE, proj |-> st.t, archiveFile |-> "absent",
                          requests |-> 1,
                          res |-> [status |-> "success", error |-> "none",
                                   files_updated |-> st.n,
                                   file_count |-> CountFiles(st.t),
                                   directory_count |-> CountDirs(st.t),
                                   local_only_files_count |->
                                       Cardinality(existing_files \ st.downloaded),
                                   downloaded |-> st.downloaded]]

DlIdle ==
    /\ projExists = FALSE /\ proj = EmptyTree /\ archiveFile = "absent"
    /\ projMeta = {} /\ dlRequests = 0
    /\ walkOrder = <<"a", "b">>
    /\ dlPre = [projExists |-> FALSE, proj |-> EmptyTree, archiveFile |-> "absent"]
    /\ dlReq = NoResponse
    /\ dlRes = NoResult
    /\ dlRepeat = FALSE
    /\ dlPrev = [status |-> "none", files_updated |-> 0]
    /\ dlCalls = 0

\* Before the first call the project directory is absent or holds any tree of
\* local files, with or without version-control metadata, and no archive lies
\* at the archive path.
DlInit ==
    /\ \/ projExists = FALSE /\ proj = EmptyTree /\ projMeta = {}
       \/ projExists = TRUE /\ proj \in LocalTrees /\ projMeta \in SUBSET MetaNames
    /\ archiveFile = "absent"
    /\ dlRequests = 0
    /\ walkOrder \in Orders
    /\ dlPre = [projExists |-> projExists, proj |-> proj, archiveFile |-> archiveFile]
    /\ dlReq = NoResponse
    /\ dlRes = NoResult
    /\ dlRepeat = FALSE
    /\ dlPrev = [status |-> "none", files_updated |-> 0]
    /\ dlCalls = 0

download_dbt_project ==
    /\ dlCalls < MaxCalls
    /\ \E resp \in Responses :
         LET out == DownloadOutcome(projExists, proj, projMeta, archiveFile, walkOrder, resp)
         IN  /\ projExists' = out.projExists
             /\ dlRequests' = out.requests
             /\ proj' = out.proj
             /\ archiveFile' = out.archiveFile
             /\ dlRes' = out.res
             /\ dlReq' = resp
             /\ dlRepeat' = (resp = dlReq)
    /\ dlPre' = [projExists |-> projExists, proj |-> proj, archiveFile |-> archiveFile]
    /\ dlPrev' = [status |-> dlRes.status, files_updated |-> dlRes.files_updated]
    /\ dlCalls' = dlCalls + 1
    /\ UNCHANGED <<walkOrder, projMeta>>

\* ------------------------------------------- download-semantic-project
\* What the server answers to GET /mcp/projects/<code>/download/semantic: as
\* for the project download; an "archive" holds the directory <code>/ with
\* `tree` (top) or no entry for <code> at all; of a "corrupt" archive tarfile
\* extracts the members `tree` and then raises TarError, of a "truncated" one
\* it extracts the members `tree` and then gzip raises EOFError.
SemTrees == TreesOver(ArchiveFile)
SemResponses ==
    { [kind |-> k, top |-> FALSE, tree |-> EmptyTree]
        : k \in {"http_error", "connect_error", "stream_error"} }
    \cup { [kind |-> k, top |-> TRUE, tree |-> t]
             : k \in {"archive", "corrupt", "truncated"}, t \in SemTrees }
    \cup { [kind |-> k, top |-> FALSE, tree |-> EmptyTree]
             : k \in {"archive", "corrupt", "truncated"} }
NoSemResponse == [kind |-> "none", top |-> FALSE, tree |-> EmptyTree]

\* FileOperations.download_semantic_project: the stale archive is removed, the
\* body is streamed to the archive path; the archive file left and the result.
DownloadSemanticProject(resp) ==
    CASE resp.kind = "http_error" -> [archive |-> "absent", error |-> "http"]
      [] resp.kind = "connect_error" -> [archive |-> "absent", error |-> "network"]
      [] resp.kind = "stream_error" -> [archive |-> "partial", error |-> "network"]
      [] OTHER -> [archive |-> "complete", error |-> "none"]

\* shutil.rmtree(semantic_project_code_path, ignore_errors=True)
RmtreeKeeps(e, t) == [exists |-> e, tree |-> t]

Rmtree(e, t) == [exists |-> FALSE, tree |-> EmptyTree]

\* tar.extractall(path=semantic_project_path): the members are written over
\* what the semantic root holds at their paths.
ExtractAll(d, resp) ==
    [exists |-> d.exists \/ resp.top,
     tree |-> [p \in Paths |-> IF resp.tree[p].kind # "none" THEN resp.tree[p]
                               ELSE d.tree[p]]]

\* if not download_result or "error" in download_result
DownloadFailedNever(dl) == FALSE
DownloadFailed(dl) == dl.error # "none"

\* The whole download-semantic-project command on a directory (e, t).
SyncOutcome(e, t, resp) ==
    LET dl == DownloadSemanticProject(resp)
        removed == Rmtree(e, t)
        extracted == ExtractAll(removed, resp)
    IN  IF DownloadFailed(dl)
        THEN [exists |-> e, tree |-> t, archive |-> dl.archive,
              res |-> [status |-> "error", error |-> "download"]]
        ELSE IF resp.kind = "corrupt"
        THEN [exists |-> extracted.exists, tree |-> extracted.tree, archive |-> "complete",
              res |-> [status |-> "error", error |-> "extract"]]
        ELSE IF resp.kind = "truncated"
        THEN [exists |-> extracted.exists, tree |-> extracted.tree, archive |-> "complete",
              res |-> [status |-> "error", error |-> "generic"]]
        ELSE [exists |-> extracted.exists, tree |-> extracted.tree, archive |-> "absent",
              res |-> [status |-> "success", error |-> "none"]]

SemIdle ==
    /\ semExists = FALSE /\ semTree = EmptyTree /\ semArchive = "absent"
    /\ semPre = [exists |-> FALSE, tree |-> EmptyTree, archive |-> "absent"]
    /\ semReq = NoSemResponse
    /\ semRes = [status |-> "none", error |-> "none"]
    /\ semCalls = 0

\* Before the first call the semantic directory of the project code is absent
\* or holds any tree of local files.
SemInit ==
    /\ \/ semExists = FALSE /\ semTree = EmptyTree
       \/ semExists = TRUE /\ semTree \in LocalTrees
    /\ semArchive = "absent"
    /\ semPre = [exists |-> semExists, tree |-> semTree, archive |-> semArchive]
    /\ semReq = NoSemResponse
    /\ semRes = [status |-> "none", error |-> "none"]
    /\ semCalls = 0

download_semantic_project ==
    /\ semCalls < MaxCalls
    /\ \E resp \in SemResponses :
         LET out == SyncOutcome(semExists, semTree, resp)
         IN  /\ semExists' = out.exists
             /\ semTree' = out.tree
             /\ semArchive' = out.archive
             /\ semRes' = out.res
             /\ semReq' = resp
    /\ semPre' = [exists |-> semExists, tree |-> semTree, archive |-> semArchive]
    /\ semCalls' = semCalls + 1


C24_FailedDownloadKeepsDirectory ==
    semReq.kind \in {"http_error", "connect_error", "stream_error"} =>
        /\ semRes.status = "error" /\ semRes.error = "download"
        /\ semExists = semPre.exists
        /\ semTree = semPre.tree

\* a failed download over a semantic directory that holds files
C24_Witness ==
    /\ semReq.kind \in {"http_error", "stream_error"}
    /\ semPre.exists
    /\ FilesOf(semPre.tree) # {}
    /\ FilesOf(semTree) # {}

\* C28: when the archive arrived and its extraction fails, the command
\* returns the extraction error, nothing of the previous semantic directory
\* is left (only members of the new archive are there) and the archive file
\* is still at its path; a later call removes that archive before it
\* downloads, so none is left when that download is refused.
C28_ExtractionFailureLosesDirectory ==
    /\ semReq.kind \in {"corrupt", "truncated"} =>
          /\ semRes.status = "error" /\ semRes.error = "extract"
          /\ \A p \in Paths : semReq.tree[p].kind = "none" => semTree[p].kind = "none"
          /\ semArchive = "complete"
    /\ (semPre.archive = "complete" /\ semReq.kind \in {"http_error", "connect_error"})
          => semArchive = "absent"


\* The file paths the last call's archive holds (none when no archive arrived).
ArchivePaths == IF dlReq.kind = "archive" THEN FilesOf(dlReq.tree) ELSE {}

\* C1: after a call, on the success path and on every error path, each file
\* that existed before the call and is not part of the downloaded archive still
\* exists with the content it had.
C1_LocalOnlyFilesUntouched ==
    dlCalls > 0 =>
        \A p \in FilesOf(dlPre.proj) \ ArchivePaths : proj[p] = dlPre.proj[p]

\* C2: after a successful call every file path of the archive is a file of the
\* project directory holding the archive's content, and the paths recorded as
\* downloaded are the archive's file paths.
C2_ArchiveFilesInstalled ==
    dlRes.status = "success" =>
        /\ \A p \in ArchivePaths : proj[p] = dlReq.tree[p]
        /\ dlRes.downloaded = ArchivePaths

\* C3: a call that gets the same answer from the server as the call before it
\* leaves every path of the project directory as it was (no content changed,
\* no file added or removed) and reports the status and the files_updated
\* count the call before reported.
C3_RepeatIsIdempotent ==
    dlRepeat =>
        /\ projExists = dlPre.projExists
        /\ proj = dlPre.proj
        /\ dlRes.status = dlPrev.status
        /\ dlRes.files_updated = dlPrev.files_updated

\* a repeated, successful merge of an archive with files into a directory that
\* also holds a local-only file
C3_Witness ==
    /\ dlRepeat
    /\ dlReq.kind = "archive"
    /\ dlRes.status = "success"
    /\ dlRes.files_updated > 0
    /\ dlRes.local_only_files_count > 0

\* C22: in the summary of a successful call files_updated is the number of
\* files in the archive, local_only_files_count the number of files that were
\* in the directory before the call and are not in the archive, file_count
\* and directory_count the counts of the merged directory without the
\* metadata directory; local_only_files_count counts no file of the metadata
\* directory, so files_updated + local_only_files_count = file_count.
C22_SummaryAddsUp ==
    dlRes.status = "success" =>
        /\ dlRes.files_updated = Cardinality(ArchivePaths)
        /\ dlRes.local_only_files_count = Cardinality(FilesOf(dlPre.proj) \ ArchivePaths)
        /\ dlRes.file_count = Cardinality(FilesOf(proj))
        /\ dlRes.directory_count = Cardinality(DirsOf(proj))
        /\ dlRes.files_updated + dlRes.local_only_files_count = dlRes.file_count

\* C23: a call answered with a status other than 200 has issued one request,
\* returns the download error, leaves the project directory as it was (absent
\* if it was absent) and leaves no file at the archive path, whatever lay
\* there before; after a successful call no file is at the archive path
\* either.
C23_Non200LeavesNothing ==
    /\ dlReq.kind = "http_error" =>
          /\ dlRequests = 1
          /\ dlRes.status = "error" /\ dlRes.error = "http"
          /\ projExists = dlPre.projExists
          /\ proj = dlPre.proj
          /\ archiveFile = "absent"
    /\ dlRes.status = "success" => archiveFile = "absent"

\* a first-time download answered with a non-200 status while the archive of
\* an interrupted earlier call lay at the archive path
C23_Witness ==
    /\ dlReq.kind = "http_error"
    /\ dlPre.archiveFile = "partial"
    /\ ~dlPre.projExists

\* C27: when the downloaded archive cannot be extracted, the call returns the
\* archive-extraction error and no path of the project directory has changed.
C27_CorruptArchiveReported ==
    dlReq.kind \in {"corrupt", "truncated"} =>
        /\ dlRes.status = "error" /\ dlRes.error = "extract"
        /\ proj = dlPre.proj

\* ------------------------------------------------ JSON values and bodies
\* A decoded JSON value: a list (items), a dict (fields, as key/value pairs) or
\* a scalar (fields = {<<"value", v>>}).
JList(items) == [type |-> "list", items |-> items, fields |-> {}]
JDict(fields) == [type |-> "dict", items |-> <<>>, fields |-> fields]
JScalar(v) == [type |-> "scalar", items |-> <<>>, fields |-> {<<"value", v>>}]

\* Python truthiness of a decoded value: empty containers, 0, false and null
\* are falsy.
Truthy(v) ==
    CASE v.type = "list" -> v.items # <<>>
      [] v.type = "dict" -> v.fields # {}
      [] OTHER -> v.fields # {<<"value", "0">>}

HasKey(v, k) == v.type = "dict" /\ \E f \in v.fields : f[1] = k

\* An entry of the list-sources response.
Db(name, schema) == [database_name |-> name, schema_name |-> schema]
Db1 == Db(<<"d1">>, <<>>)

\* What curl writes on stdout: its text and, when the text is JSON, the value
\* it decodes to.
JsonBody(text, v) == [text |-> text, json |-> TRUE, value |-> v]
RawBody(text) == [text |-> text, json |-> FALSE, value |-> JDict({})]
CurlBodies ==
    { RawBody(""), RawBody("<html>"),
      JsonBody("[]", JList(<<>>)), JsonBody("[db]", JList(<<Db1>>)),
      JsonBody("{}", JDict({})), JsonBody("{status}", JDict({<<"status", "ok">>})),
      JsonBody("0", JScalar("0")), JsonBody("7", JScalar("7")) }

\* --------------------------------------------------------- run_curl_command
\* One run of the curl command:
\*   "ok"      exit code 0
\*   "refused" a non-zero exit code with "Connection refused" on stderr
\*   "fail"    any other non-zero exit code
\*   "raise"   subprocess.run raises (the command could not be run)
CurlOutcomes ==
    { [kind |-> k, body |-> b] : k \in {"ok", "fail"}, b \in CurlBodies }
    \cup { [kind |-> k, body |-> RawBody("")] : k \in {"refused", "raise"} }
NoOutcome == [kind |-> "none", body |-> RawBody("")]

\* if success or "Connection refused" not in result.stderr
ReturnsAtOnce(o) == o.kind \in {"ok", "fail"}

\* response_json = {}; if output: try json.loads(output) except JSONDecodeError
JsonLoads(body) == IF body.text # "" /\ body.json THEN body.value ELSE JDict({})

NoCurlRet == [success |-> FALSE, response_json |-> JDict({}), output |-> ""]

\* the text of last_error after an attempt that did not return
ErrorText(o) == IF o.kind = "refused" THEN "Connection refused" ELSE "exception"

\* if attempt < retries: ... time.sleep(retry_delay)
SleepsAfterAlways(a, r) == TRUE

SleepsAfter(a, r) == a < r

\* http_get / http_post on the tuple run_curl_command returned
HttpReturn(r) ==
    IF r.success
    THEN IF Truthy(r.response_json) THEN r.response_json
         ELSE JDict({<<"data", r.output>>})
    ELSE JDict({<<"error", IF r.output # "" THEN r.output ELSE "Request failed">>})

CurlIdle ==
    /\ curlPc = "idle" /\ curlRetries = 0 /\ attempt = 0 /\ last_error = "None"
    /\ curlLog = <<>> /\ curlKinds = <<>> /\ curlOut = NoOutcome
    /\ curlRet = NoCurlRet /\ httpRes = JDict({})

\* http_get(url, headers, retries=r) calls run_curl_command: attempt = 0,
\* last_error = None
http_get ==
    /\ curlPc \in {"idle", "done"}
    /\ \E r \in 0..MaxRetries : curlRetries' = r
    /\ curlPc' = "loop" /\ attempt' = 0 /\ last_error' = "None"
    /\ curlLog' = <<>> /\ curlKinds' = <<>> /\ curlOut' = NoOutcome
    /\ curlRet' = NoCurlRet /\ httpRes' = JDict({})

\* one pass of the while loop: run curl, return or count the attempt
curl_attempt ==
    /\ curlPc = "loop" /\ attempt < curlRetries
    /\ \E o \in CurlOutcomes :
         /\ curlOut' = o
         /\ curlKinds' = Append(curlKinds, o.kind)
         /\ curlLog' = Append(curlLog, "attempt")
         /\ IF ReturnsAtOnce(o)
            THEN /\ curlRet' = [success |-> o.kind = "ok",
                                response_json |-> JsonLoads(o.body),
                                output |-> o.body.text]
                 /\ curlPc' = "returned"
                 /\ UNCHANGED <<attempt, last_error>>
            ELSE /\ last_error' = ErrorText(o)
                 /\ attempt' = attempt + 1
                 /\ curlPc' = IF SleepsAfter(attempt + 1, curlRetries) THEN "sleep" ELSE "loop"
                 /\ UNCHANGED curlRet
    /\ UNCHANGED <<curlRetries, httpRes>>

\* time.sleep(retry_delay)
curl_sleep ==
    /\ curlPc = "sleep"
    /\ curlLog' = Append(curlLog, "sleep")
    /\ curlPc' = "loop"
    /\ UNCHANGED <<curlRetries, attempt, last_error, curlKinds, curlOut, curlRet, httpRes>>

\* the loop ends with every attempt used: return False, {"error": ...}, ...
curl_exhausted ==
    /\ curlPc = "loop" /\ ~(attempt < curlRetries)
    /\ curlRet' = [success |-> FALSE,
                   response_json |-> JDict({<<"error", last_error>>}),
                   output |-> last_error]
    /\ curlPc' = "returned"
    /\ UNCHANGED <<curlRetries, attempt, last_error, curlLog, curlKinds, curlOut, httpRes>>

\* http_get returns what it makes of run_curl_command's tuple
http_return ==
    /\ curlPc = "returned"
    /\ httpRes' = HttpReturn(curlRet)
    /\ curlPc' = "done"
    /\ UNCHANGED <<curlRetries, attempt, last_error, curlLog, curlKinds, curlOut, curlRet>>

\* ---------------------------------------------------------- refresh-sources
PollInterval == 2
PollTimeout == 60
DefaultCompleteStatuses == {"completed", "failed", "error"}

\* What http_get returns for the refresh request: a structure with an error
\* key, a list, a dict with no task_id, or a task handle whose instructions
\* may carry complete_statuses, and may carry an interval and a timeout.
NoInstructions ==
    [has_statuses |-> FALSE, statuses |-> {},
     has_timing |-> FALSE, interval |-> 0, timeout |-> 0]
Triggers ==
    { [kind |-> k, instructions |-> NoInstructions]
        : k \in {"error", "list", "no_task", "task"} }
    \cup { [kind |-> "task",
            instructions |-> [has_statuses |-> hs,
                              statuses |-> IF hs THEN {"success", "failed"} ELSE {},
                              has_timing |-> ht,
                              interval |-> IF ht THEN 5 ELSE 0,
                              timeout |-> IF ht THEN 30 ELSE 0]]
            : hs \in BOOLEAN, ht \in BOOLEAN }
NoTrigger == [kind |-> "none", instructions |-> NoInstructions]

\* while time.time() - start_time < poll_timeout
WithinTimeoutInclusive(elapsed) == elapsed <= PollTimeout

WithinTimeout(elapsed) == elapsed < PollTimeout

\* What http_get returns for a status request: a list, or a dict whose status
\* is a string or missing ("None"); a transport failure is a dict with an error
\* key and no status.
Statuses == {"running", "completed", "failed", "error", "success"}
PollResponses ==
    { [kind |-> "dict", status |-> st, error |-> FALSE] : st \in Statuses \cup {"None"} }
    \cup { [kind |-> "dict", status |-> "None", error |-> TRUE],
           [kind |-> "list", status |-> "None", error |-> FALSE] }
NoPoll == [kind |-> "none", status |-> "None", error |-> FALSE]

NoRet == [kind |-> "none", resp |-> NoPoll]

\* if current_status in complete_statuses
StopsPollingOnSuccessOnly(resp, complete_statuses) ==
    resp.status \in complete_statuses /\ resp.status = "success"

StopsPollingOnError(resp, complete_statuses) ==
    resp.status \in complete_statuses \/ resp.error

StopsPolling(resp, complete_statuses) == resp.status \in complete_statuses

RsIdle ==
    /\ rsPc = "idle" /\ rsTerminal = {} /\ rsElapsed = 0 /\ rsPolls = 0
    /\ rsSleeps = 0 /\ rsSlept = 0 /\ rsLastPoll = NoPoll
    /\ rsTerminalSeen = FALSE /\ rsRet = NoRet /\ rsTrig = NoTrigger

\* the command up to the poll loop: the refresh request and its checks
refresh_sources ==
    /\ rsPc \in {"idle", "done"}
    /\ \E trig \in Triggers :
         /\ rsTrig' = trig
         /\ rsTerminal' = IF trig.kind = "task"
                          THEN IF trig.instructions.has_statuses
                               THEN trig.instructions.statuses
                               ELSE DefaultCompleteStatuses
                          ELSE {}
         /\ rsPc' = IF trig.kind = "task" THEN "loop" ELSE "done"
         /\ rsRet' = IF trig.kind = "task" THEN NoRet ELSE [kind |-> "None", resp |-> NoPoll]
    /\ rsElapsed' = 0 /\ rsPolls' = 0 /\ rsSleeps' = 0 /\ rsSlept' = 0
    /\ rsLastPoll' = NoPoll /\ rsTerminalSeen' = FALSE

\* one status request inside the loop, and what the loop body does with it
rs_poll ==
    /\ rsPc = "loop" /\ WithinTimeout(rsElapsed)
    /\ \E resp \in PollResponses, lat \in 0..MaxLatency :
         /\ rsElapsed' = rsElapsed + lat
         /\ rsLastPoll' = resp
         /\ rsTerminalSeen' = (resp.kind = "dict" /\ resp.status \in rsTerminal)
         /\ IF resp.kind = "list"
            THEN rsPc' = "done" /\ rsRet' = [kind |-> "None", resp |-> NoPoll]
            ELSE IF StopsPolling(resp, rsTerminal)
            THEN rsPc' = "done" /\ rsRet' = [kind |-> "response", resp |-> resp]
            ELSE rsPc' = "sleep" /\ UNCHANGED rsRet
    /\ rsPolls' = rsPolls + 1
    /\ UNCHANGED <<rsTerminal, rsSleeps, rsSlept, rsTrig>>

\* time.sleep(poll_interval)
rs_sleep ==
    /\ rsPc = "sleep"
    /\ rsElapsed' = rsElapsed + PollInterval
    /\ rsSleeps' = rsSleeps + 1
    /\ rsSlept' = rsSlept + PollInterval
    /\ rsPc' = "loop"
    /\ UNCHANGED <<rsTerminal, rsPolls, rsLastPoll, rsTerminalSeen, rsRet, rsTrig>>

\* the while condition fails: the timeout result is returned
rs_timeout ==
    /\ rsPc = "loop" /\ ~WithinTimeout(rsElapsed)
    /\ rsPc' = "done"
    /\ rsRet' = [kind |-> "timeout", resp |-> NoPoll]
    /\ UNCHANGED <<rsTerminal, rsElapsed, rsPolls, rsSleeps, rsSlept, rsLastPoll, rsTerminalSeen,
                   rsTrig>>

\* -------------------------------------------------------------- list-sources
\* file_mtime > time.time() - 86400
CacheMaxAge == 86400

IsFreshInclusive(age) == age <= CacheMaxAge

IsFresh(age) == age < CacheMaxAge

\* The databases a response may list, and the name of the descriptor file of
\* one: <database_name>.yaml, or <database_name>_<schema_name>.yaml when the
\* schema name is not None (<<>>).
Dbs == { Db1, Db(<<"d1">>, <<"s">>), Db(<<"d1", "_", "s">>, <<>>) }

YamlFilename(db) ==
    IF db.schema_name = <<>> THEN db.database_name \o <<".yaml">>
    ELSE db.database_name \o <<"_">> \o db.schema_name \o <<".yaml">>

YamlNames == { YamlFilename(db) : db \in Dbs }
JsonName == <<"raw_sources.json">>

DbLists == UNION { [1..n -> Dbs] : n \in 0..MaxDbs }

\* What curl hands to http_get for the list-sources request (a JSON list, a
\* body that is not JSON, a failure), and so what http_get returns.
LsAnswers ==
    { [success |-> TRUE, response_json |-> JList(l),
       output |-> IF l = <<>> THEN "[]" ELSE "[...]"] : l \in DbLists }
    \cup { [success |-> TRUE, response_json |-> JDict({}), output |-> "<html>"],
           [success |-> FALSE, response_json |-> JDict({}), output |-> ""] }
LsResponses == { HttpReturn(a) : a \in LsAnswers }

\* A file of the cache directory: the JSON cache holds a value (or text that
\* is not JSON) and has an age; a descriptor holds what was made of a
\* database; gen is the call that wrote the file (0: before the first call).
InvalidJson == [type |-> "invalid", items |-> <<>>, fields |-> {}]
NoCache == [kind |-> "absent", value |-> JDict({}), age |-> 0, gen |-> 0]
CacheFile(v, age, g) == [kind |-> "file", value |-> v, age |-> age, gen |-> g]
NoYaml == [kind |-> "absent", db |-> Db1, gen |-> 0]
YamlFile(db, g) == [kind |-> "file", db |-> db, gen |-> g]

NoLsRet == [kind |-> "none", value |-> JDict({})]

\* isinstance(cached_response, list) and len(cached_response) > 0
IsUsableCacheAnyList(cached_response) == cached_response.type = "list"

IsUsableCache(cached_response) ==
    cached_response.type = "list" /\ Len(cached_response.items) > 0

\* isinstance(sources_response, list)
IsDatabaseListAlways(resp) == TRUE

IsDatabaseList(resp) == resp.type = "list"

LsIdle ==
    /\ lsDirExists = FALSE /\ lsCache = NoCache
    /\ lsYaml = [n \in YamlNames |-> NoYaml] /\ lsStray = FALSE
    /\ lsPc = "idle" /\ lsResp = JDict({}) /\ lsIdx = 1 /\ lsRet = NoLsRet
    /\ lsPre = [cache |-> NoCache, yaml |-> [n \in YamlNames |-> NoYaml], stray |-> FALSE]
    /\ lsTouched = {} /\ lsDeleted = FALSE /\ lsCalls = 0

\* Before the first call the cache directory is absent, or holds what earlier
\* runs left: a JSON cache of any age (a list, an empty list, an error
\* structure, or text cut short that is not JSON), descriptor files, and
\* possibly a file of another name.
LsInit ==
    /\ lsPc = "idle" /\ lsResp = JDict({}) /\ lsIdx = 1 /\ lsRet = NoLsRet
    /\ lsTouched = {} /\ lsDeleted = FALSE /\ lsCalls = 0
    /\ \/ /\ lsDirExists = FALSE /\ lsCache = NoCache
          /\ lsYaml = [n \in YamlNames |-> NoYaml] /\ lsStray = FALSE
       \/ /\ lsDirExists = TRUE
          /\ lsCache \in {NoCache} \cup
                { CacheFile(v, a, 0) :
                    v \in {JList(<<Db1>>), JList(<<>>), JDict({<<"error", "Request failed">>}),
                           InvalidJson},
                    a \in {0, CacheMaxAge - 1, CacheMaxAge} }
          /\ lsYaml \in [YamlNames -> {NoYaml, YamlFile(Db1, 0)}]
          /\ lsStray \in BOOLEAN
    /\ lsPre = [cache |-> lsCache, yaml |-> lsYaml, stray |-> lsStray]

\* the command up to the freshness check: the live fetch, and the cache
\* directory made if it is absent
list_sources ==
    /\ lsPc \in {"idle", "done", "crashed"} /\ lsCalls < MaxCalls
    /\ \E r \in LsResponses : lsResp' = r
    /\ lsDirExists' = TRUE
    /\ lsPre' = [cache |-> lsCache, yaml |-> lsYaml, stray |-> lsStray]
    /\ lsTouched' = {} /\ lsDeleted' = FALSE /\ lsRet' = NoLsRet /\ lsIdx' = 1
    /\ lsCalls' = lsCalls + 1
    /\ lsPc' = "check"
    /\ UNCHANGED <<lsCache, lsYaml, lsStray>>

\* the freshness check: return the cached list, raise on text that is not
\* JSON, or go on to clear the cache
ls_check ==
    /\ lsPc = "check"
    /\ IF lsCache.kind = "file" /\ IsFresh(lsCache.age)
       THEN IF lsCache.value = InvalidJson
            THEN lsPc' = "crashed" /\ lsRet' = [kind |-> "raised", value |-> JDict({})]
            ELSE IF IsUsableCache(lsCache.value)
            THEN lsPc' = "done" /\ lsRet' = [kind |-> "value", value |-> lsCache.value]
            ELSE lsPc' = "clear" /\ UNCHANGED lsRet
       ELSE lsPc' = "clear" /\ UNCHANGED lsRet
    /\ UNCHANGED <<lsDirExists, lsCache, lsYaml, lsStray, lsResp, lsIdx, lsPre,
                   lsTouched, lsDeleted, lsCalls>>

\* for file in os.listdir(...): os.remove(...)
ls_clear ==
    /\ lsPc = "clear"
    /\ lsCache' = NoCache
    /\ lsYaml' = [n \in YamlNames |-> NoYaml]
    /\ lsStray' = FALSE
    /\ lsDeleted' = TRUE
    /\ lsPc' = "write_json"
    /\ UNCHANGED <<lsDirExists, lsResp, lsIdx, lsRet, lsPre, lsTouched, lsCalls>>

\* json.dump(sources_response, f), then the check that it is a list
ls_write_json ==
    /\ lsPc = "write_json"
    /\ lsCache' = CacheFile(lsResp, 0, lsCalls)
    /\ lsTouched' = lsTouched \cup {JsonName}
    /\ IF IsDatabaseList(lsResp)
       THEN lsPc' = "mirror" /\ UNCHANGED lsRet
       ELSE lsPc' = "done" /\ lsRet' = [kind |-> "None", value |-> JDict({})]
    /\ UNCHANGED <<lsDirExists, lsYaml, lsStray, lsResp, lsIdx, lsPre, lsDeleted, lsCalls>>

\* one pass of the loop over the databases: the descriptor file is written
ls_mirror ==
    /\ lsPc = "mirror" /\ lsIdx <= Len(lsResp.items)
    /\ LET db == lsResp.items[lsIdx]
       IN  /\ lsYaml' = [lsYaml EXCEPT ![YamlFilename(db)] = YamlFile(db, lsCalls)]
           /\ lsTouched' = lsTouched \cup {YamlFilename(db)}
    /\ lsIdx' = lsIdx + 1
    /\ UNCHANGED <<lsDirExists, lsCache, lsStray, lsPc, lsResp, lsRet, lsPre, lsDeleted, lsCalls>>

\* return sources_response
ls_return ==
    /\ lsPc = "mirror" /\ lsIdx > Len(lsResp.items)
    /\ lsRet' = [kind |-> "value", value |-> lsResp]
    /\ lsPc' = "done"
    /\ UNCHANGED <<lsDirExists, lsCache, lsYaml, lsStray, lsResp, lsIdx, lsPre,
                   lsTouched, lsDeleted, lsCalls>>

\* between two calls the cache file grows older
time_passes ==
    /\ lsPc \in {"done", "crashed"} /\ lsCalls < MaxCalls
    /\ lsCache.kind = "file"
    /\ \E a \in {CacheMaxAge - 1, CacheMaxAge} :
          a > lsCache.age /\ lsCache' = [lsCache EXCEPT !.age = a]
    /\ UNCHANGED <<lsDirExists, lsYaml, lsStray, lsPc, lsResp, lsIdx, lsRet, lsPre,
                   lsTouched, lsDeleted, lsCalls>>

\* --------------------------------------------------------- git operations
\* Text is a sequence of characters (the extension ".sql" counts as one). The
\* files of a project directory, in the order git lists paths: the model
\* f.sql and the file gh.
GitPaths == << <<"f", ".sql">>, <<"g", "h">> >>
GitPathSet == { GitPaths[i] : i \in 1..Len(GitPaths) }

\* A file as git sees it: absent, untracked, added to the index and in no
\* commit, committed and unchanged, changed in the working tree only, or
\* changed and staged.
FileStates == {"absent", "untracked", "added", "clean", "modified", "staged"}

\* the two-character code of git status --porcelain
StatusCode(st) ==
    CASE st = "untracked" -> <<"?", "?">>
      [] st = "added" -> <<"A", " ">>
      [] st = "modified" -> <<" ", "M">>
      [] st = "staged" -> <<"M", " ">>
      [] OTHER -> <<>>

\* git status --porcelain: the changed tracked files, then the untracked
\* ones, one line "XY path" each
PorcelainEntries(files) ==
    LET tracked == SelectSeq(GitPaths, LAMBDA p : files[p] \in {"added", "modified", "staged"})
        untracked == SelectSeq(GitPaths, LAMBDA p : files[p] = "untracked")
        order == tracked \o untracked
    IN  [i \in 1..Len(order) |-> [code |-> StatusCode(files[order[i]]), path |-> order[i]]]

RECURSIVE PorcelainText(_)
PorcelainText(entries) ==
    IF entries = <<>> THEN <<>>
    ELSE Head(entries).code \o <<" ">> \o Head(entries).path \o <<"\n">>
         \o PorcelainText(Tail(entries))

\* str.strip(): leading and trailing whitespace removed
Whitespace == {" ", "\n"}
RECURSIVE LStrip(_)
LStrip(s) == IF s # <<>> /\ Head(s) \in Whitespace THEN LStrip(Tail(s)) ELSE s
RECURSIVE RStrip(_)
RStrip(s) ==
    IF s # <<>> /\ s[Len(s)] \in Whitespace THEN RStrip(SubSeq(s, 1, Len(s) - 1)) ELSE s
Strip(s) == LStrip(RStrip(s))

\* str.split('\n')
RECURSIVE SplitLines(_, _)
SplitLines(s, cur) ==
    IF s = <<>> THEN <<cur>>
    ELSE IF Head(s) = "\n" THEN <<cur>> \o SplitLines(Tail(s), <<>>)
    ELSE SplitLines(Tail(s), Append(cur, Head(s)))

\* line[:2] and line[3:]
CodeOf(line) == SubSeq(line, 1, IF Len(line) < 2 THEN Len(line) ELSE 2)
FilenameOf(line) == SubSeq(line, 4, Len(line))

\* the list a status code sends its line to
ClassifyAddedAsModified(status_code) ==
    IF status_code = <<"?", "?">> THEN "untracked"
    ELSE IF status_code # <<>> /\ status_code[1] \in {"M", "A"} THEN "modified"
    ELSE "none"

Classify(status_code) ==
    IF status_code = <<"?", "?">> THEN "untracked"
    ELSE IF status_code # <<>> /\ status_code[1] = "M" THEN "modified"
    ELSE IF status_code # <<>> /\ status_code[1] = "A" THEN "staged"
    ELSE "none"

\* run_git_command on git status --porcelain, and the parsing loop: the
\* lines of the stripped output, the list each goes to, the three lists
StatusLines(files) == SplitLines(Strip(PorcelainText(PorcelainEntries(files))), <<>>)
Landed(lines) ==
    [i \in 1..Len(lines) |-> IF lines[i] = <<>> THEN "none" ELSE Classify(CodeOf(lines[i]))]
RECURSIVE FilesIn(_, _)
FilesIn(lines, list) ==
    IF lines = <<>> THEN <<>>
    ELSE (IF Head(lines) # <<>> /\ Classify(CodeOf(Head(lines))) = list
          THEN <<FilenameOf(Head(lines))>> ELSE <<>>)
         \o FilesIn(Tail(lines), list)

\* What git does to the files: git add ., git commit, git reset, git reset
\* --hard, and git reset -- path / git checkout HEAD -- path.
GitAdd(files) ==
    [p \in GitPathSet |->
        CASE files[p] = "untracked" -> "added"
          [] files[p] = "modified" -> "staged"
          [] OTHER -> files[p]]
CanCommit(files) == \E p \in GitPathSet : files[p] \in {"added", "staged"}
GitCommitKeepsIndex(files) == files

GitCommit(files) ==
    [p \in GitPathSet |-> IF files[p] \in {"added", "staged"} THEN "clean" ELSE files[p]]
GitResetSoft(files, paths) ==
    [p \in GitPathSet |->
        CASE p \in paths /\ files[p] = "added" -> "untracked"
          [] p \in paths /\ files[p] = "staged" -> "modified"
          [] OTHER -> files[p]]
GitResetHard(files) ==
    [p \in GitPathSet |->
        CASE files[p] = "added" -> "absent"
          [] files[p] \in {"staged", "modified"} -> "clean"
          [] OTHER -> files[p]]
InHead(files, p) == files[p] \in {"clean", "modified", "staged"}
GitCheckoutHead(files, p) == [files EXCEPT ![p] = "clean"]

\* The result of an operation: the error kinds, the status values, and for
\* status the three lists and has_changes; for project commit the --models
\* list it was given and the files it selected.
GitResult(op, kind) ==
    [op |-> op, kind |-> kind, modified_files |-> <<>>, staged_files |-> <<>>,
     untracked_files |-> <<>>, has_changes |-> FALSE, branch |-> "none",
     models |-> {}, selected |-> <<>>]
NoGitRes == GitResult("none", "none")
\* the operation before the last, when it was an init that put a directory
\* holding files under version control: its status and the files it found
NoGitPrev == [op |-> "other", kind |-> "none", files |-> [p \in GitPathSet |-> "absent"]]

\* if not os.path.exists(project_dir) ...; if not os.path.exists(.git) ...
PrecheckDirectoryOnly(dir, meta) == IF ~dir THEN "NotFound" ELSE "ok"

Precheck(dir, meta) ==
    IF ~dir THEN "NotFound" ELSE IF ~meta THEN "NotInitialized" ELSE "ok"

\* if os.path.exists(os.path.join(project_dir, ".git"))
AlreadyInitializedNever(meta) == FALSE

AlreadyInitialized(meta) == meta

GitIdle ==
    /\ gitProj = FALSE /\ gitMeta = FALSE
    /\ gitFiles = [p \in GitPathSet |-> "absent"]
    /\ gitRes = NoGitRes /\ gitCmds = <<>>
    /\ gitPre = [meta |-> FALSE, files |-> [p \in GitPathSet |-> "absent"]]
    /\ gitOut = <<>> /\ gitLanded = <<>> /\ gitPriorInits = {}
    /\ gitPrev = NoGitPrev

\* A project directory that is absent, or present with any files and not yet
\* under version control.
GitInit ==
    /\ gitProj \in BOOLEAN /\ gitMeta = FALSE
    /\ gitFiles \in [GitPathSet -> {"absent", "untracked"}]
    /\ ~gitProj => gitFiles = [p \in GitPathSet |-> "absent"]
    /\ gitRes = NoGitRes /\ gitCmds = <<>>
    /\ gitPre = [meta |-> FALSE, files |-> gitFiles]
    /\ gitOut = <<>> /\ gitLanded = <<>> /\ gitPriorInits = {}
    /\ gitPrev = NoGitPrev

\* the end of an operation: its result, the commands it ran, what it left
GitReturn(res, cmds, meta, files) ==
    /\ gitRes' = res /\ gitCmds' = cmds /\ gitMeta' = meta /\ gitFiles' = files
    /\ gitPre' = [meta |-> gitMeta, files |-> gitFiles]
    /\ gitPrev' = IF /\ gitRes.op = "init" /\ gitRes.kind \in {"success", "warning"}
                      /\ \E p \in GitPathSet : gitPre.files[p] = "untracked"
                   THEN [op |-> "init", kind |-> gitRes.kind, files |-> gitPre.files]
                   ELSE NoGitPrev
    /\ gitPriorInits' = gitPriorInits \cup (IF gitRes.op = "init" THEN {gitRes.kind} ELSE {})
    /\ UNCHANGED gitProj

init_repository ==
    \E init_ok \in BOOLEAN, add_ok \in BOOLEAN, commit_ok \in BOOLEAN :
      /\ gitOut' = <<>> /\ gitLanded' = <<>>
      /\ IF ~gitProj
         THEN GitReturn(GitResult("init", "NotFound"), <<>>, gitMeta, gitFiles)
         ELSE IF AlreadyInitialized(gitMeta)
         THEN GitReturn(GitResult("init", "info"), <<>>, gitMeta, gitFiles)
         ELSE IF ~init_ok
         THEN GitReturn(GitResult("init", "CommandFailed"), <<"init">>, gitMeta, gitFiles)
         ELSE LET added == IF add_ok THEN GitAdd(gitFiles) ELSE gitFiles
                  committed == commit_ok /\ CanCommit(added)
                  cmds == <<"init", "config", "config", "add", "commit">>
              IN  IF committed
                  THEN GitReturn(GitResult("init", "success"), cmds, TRUE, GitCommit(added))
                  ELSE GitReturn(GitResult("init", "warning"), cmds, TRUE, added)

get_status ==
    \E status_ok \in BOOLEAN, branch_ok \in BOOLEAN :
      LET pre == Precheck(gitProj, gitMeta)
          lines == StatusLines(gitFiles)
          modified == FilesIn(lines, "modified")
          staged == FilesIn(lines, "staged")
          untracked == FilesIn(lines, "untracked")
      IN  IF pre # "ok"
          THEN /\ GitReturn(GitResult("status", pre), <<>>, gitMeta, gitFiles)
               /\ gitOut' = <<>> /\ gitLanded' = <<>>
          ELSE IF ~status_ok
          THEN /\ GitReturn(GitResult("status", "CommandFailed"), <<"status">>, gitMeta, gitFiles)
               /\ gitOut' = <<>> /\ gitLanded' = <<>>
          ELSE /\ GitReturn([op |-> "status", kind |-> "status",
                             modified_files |-> modified, staged_files |-> staged,
                             untracked_files |-> untracked,
                             has_changes |-> (modified # <<>> \/ staged # <<>>
                                              \/ untracked # <<>>),
                             branch |-> IF branch_ok THEN "master" ELSE "unknown",
                             models |-> {}, selected |-> <<>>],
                            <<"status", "branch">>, gitMeta, gitFiles)
               /\ gitOut' = PorcelainEntries(gitFiles)
               /\ gitLanded' = Landed(lines)

\* commit_changes with stage_all = True
commit_changes ==
    \E add_ok \in BOOLEAN, commit_ok \in BOOLEAN :
      LET pre == Precheck(gitProj, gitMeta)
          added == GitAdd(gitFiles)
      IN  /\ gitOut' = <<>> /\ gitLanded' = <<>>
          /\ IF pre # "ok"
             THEN GitReturn(GitResult("commit", pre), <<>>, gitMeta, gitFiles)
             ELSE IF ~add_ok
             THEN GitReturn(GitResult("commit", "StageFailed"), <<"add">>, gitMeta, gitFiles)
             ELSE IF commit_ok /\ CanCommit(added)
             THEN GitReturn(GitResult("commit", "success"), <<"add", "commit">>,
                            gitMeta, GitCommit(added))
             ELSE GitReturn(GitResult("commit", "error"), <<"add", "commit">>, gitMeta, added)

\* filename.endswith(".sql")
EndsWithSql(filename) == filename # <<>> /\ filename[Len(filename)] = ".sql"
\* os.path.splitext(os.path.basename(file_path))[0]
ModelName(file_path) ==
    IF Len(file_path) > 1 /\ file_path[Len(file_path)] = ".sql"
    THEN SubSeq(file_path, 1, Len(file_path) - 1) ELSE file_path
\* args.models.split(","): no list, the model f, a model that does not exist
ModelLists == { {}, {<<"f">>}, {<<"z">>} }

\* the project commit command: the modified .sql files of get_status, those
\* that exist, those of the --models list, then commit_changes with its
\* default stage_all = True
project_commit ==
    \E models \in ModelLists, status_ok \in BOOLEAN, add_ok \in BOOLEAN, commit_ok \in BOOLEAN :
      LET pre == Precheck(gitProj, gitMeta)
          reported == IF pre = "ok" /\ status_ok
                      THEN FilesIn(StatusLines(gitFiles), "modified") ELSE <<>>
          modified_paths == SelectSeq(reported, EndsWithSql)
          modified_files ==
              SelectSeq(modified_paths,
                        LAMBDA f : f \in GitPathSet /\ gitFiles[f] # "absent")
          selected == IF models = {} THEN modified_files
                      ELSE SelectSeq(modified_files, LAMBDA f : ModelName(f) \in models)
          status_cmds == IF pre # "ok" THEN <<>>
                         ELSE IF status_ok THEN <<"status", "branch">> ELSE <<"status">>
          added == GitAdd(gitFiles)
          res(kind) == [GitResult("project_commit", kind)
                           EXCEPT !.models = models, !.selected = selected]
      IN  /\ gitOut' = <<>> /\ gitLanded' = <<>>
          /\ IF ~gitProj
             THEN GitReturn(res("None"), <<>>, gitMeta, gitFiles)
             ELSE IF selected = <<>>
             THEN GitReturn(res("None"), status_cmds, gitMeta, gitFiles)
             ELSE IF ~add_ok
             THEN GitReturn(res("StageFailed"), status_cmds \o <<"add">>, gitMeta, gitFiles)
             ELSE IF commit_ok /\ CanCommit(added)
             THEN GitReturn(res("success"), status_cmds \o <<"add", "commit">>,
                            gitMeta, GitCommit(added))
             ELSE GitReturn(res("error"), status_cmds \o <<"add", "commit">>, gitMeta, added)

\* reset_changes: all files or one, soft or hard
reset_changes ==
    \E hard_reset \in BOOLEAN, file_path \in GitPathSet \cup {<<>>}, ok \in BOOLEAN :
      LET pre == Precheck(gitProj, gitMeta)
          cmd == IF file_path # <<>>
                 THEN IF hard_reset THEN "checkout" ELSE "reset_path"
                 ELSE IF hard_reset THEN "reset_hard" ELSE "reset"
          succeeds == ok /\ (cmd = "checkout" => InHead(gitFiles, file_path))
          after == CASE cmd = "checkout" -> GitCheckoutHead(gitFiles, file_path)
                     [] cmd = "reset_path" -> GitResetSoft(gitFiles, {file_path})
                     [] cmd = "reset_hard" -> GitResetHard(gitFiles)
                     [] OTHER -> GitResetSoft(gitFiles, GitPathSet)
      IN  /\ gitOut' = <<>> /\ gitLanded' = <<>>
          /\ IF pre # "ok"
             THEN GitReturn(GitResult("reset", pre), <<>>, gitMeta, gitFiles)
             ELSE IF succeeds
             THEN GitReturn(GitResult("reset", "success"), <<cmd>>, gitMeta, after)
             ELSE GitReturn(GitResult("reset", "error"), <<cmd>>, gitMeta, gitFiles)

get_history ==
    \E ok \in BOOLEAN :
      LET pre == Precheck(gitProj, gitMeta)
      IN  /\ gitOut' = <<>> /\ gitLanded' = <<>>
          /\ IF pre # "ok"
             THEN GitReturn(GitResult("history", pre), <<>>, gitMeta, gitFiles)
             ELSE IF ~ok
             THEN GitReturn(GitResult("history", "CommandFailed"), <<"log">>, gitMeta, gitFiles)
             ELSE GitReturn(GitResult("history", "history"), <<"log">>, gitMeta, gitFiles)

\* between two operations a file of the project is created, changed or
\* removed
edit_workspace ==
    /\ gitProj
    /\ \E p \in GitPathSet :
         /\ gitFiles[p] \in {"absent", "clean", "untracked"}
         /\ gitOut' = <<>> /\ gitLanded' = <<>>
         /\ GitReturn(GitResult("edit", "none"), <<>>, gitMeta,
                      [gitFiles EXCEPT ![p] =
                          CASE gitFiles[p] = "absent" -> "untracked"
                            [] gitFiles[p] = "clean" -> "modified"
                            [] OTHER -> "absent"])

\* --------------------------------------------------------- file operations
\* A location is the sequence of names from the top of the disk. The
\* working directory, the model-projects root in it, the directory of a
\* project code.
Cwd == <<"cwd">>
ModelsRoot == Cwd \o <<"local-model-projects">>
ProjectDir(project_code) == ModelsRoot \o <<project_code>>

\* The locations that may hold something: project p with a and b, a/a and
\* a/b; another project q with its file a; a file x beside the root.
FoRel == Paths1 \cup Paths2
Locs ==
    {ProjectDir("p")} \cup { ProjectDir("p") \o r : r \in FoRel }
    \cup {ProjectDir("q"), ProjectDir("q") \o <<"a">>}
    \cup {Cwd \o <<"x">>}

\* The path arguments: relative paths of the project, paths with .. segments
\* (the project directory's parent, a file of project q, the file beside the
\* root) and an absolute path.
FilePaths ==
    FoRel \cup { <<"..">>, <<"..", "q", "a">>, <<"..", "..", "x">>, <<"/", "cwd", "x">> }

\* os.path.join(base_path, file_path): an absolute file_path replaces the base
JoinPath(base, path) == IF path # <<>> /\ Head(path) = "/" THEN Tail(path) ELSE base \o path
\* the location a joined path names once its .. segments are followed
RECURSIVE FollowDots(_, _)
FollowDots(segs, acc) ==
    IF segs = <<>> THEN acc
    ELSE IF Head(segs) = ".."
    THEN FollowDots(Tail(segs), IF acc = <<>> THEN acc ELSE SubSeq(acc, 1, Len(acc) - 1))
    ELSE FollowDots(Tail(segs), Append(acc, Head(segs)))
Resolve(project_code, path) == FollowDots(JoinPath(ProjectDir(project_code), path), <<>>)

\* what is at a location: the working directory and the root are
\* directories, nothing exists elsewhere
NodeAt(disk, loc) ==
    IF loc \in Locs THEN disk[loc]
    ELSE IF loc \in {<<>>, Cwd, ModelsRoot} THEN DirNode ELSE NoNode
\* os.path.exists, os.path.isfile
Exists(disk, loc) == NodeAt(disk, loc).kind # "none"
InsideProject(project_code, loc) ==
    Len(loc) >= Len(ProjectDir(project_code))
    /\ SubSeq(loc, 1, Len(ProjectDir(project_code))) = ProjectDir(project_code)

DiskWellFormed(disk) ==
    \A loc \in Locs : Exists(disk, loc) => IsDir(NodeAt(disk, Parent(loc)))
Disks ==
    { d \in [Locs -> {NoNode, DirNode, LocalFile}] :
        /\ DiskWellFormed(d)
        /\ ~IsFile(d[ProjectDir("p")]) /\ ~IsFile(d[ProjectDir("q")])
        /\ \A r \in Paths2 \cup {<<"b">>} : ~IsDir(d[ProjectDir("p") \o r])
        /\ ~IsDir(d[ProjectDir("q") \o <<"a">>]) /\ ~IsDir(d[Cwd \o <<"x">>]) }

\* os.makedirs(os.path.dirname(full_path), exist_ok=True): the missing
\* directories above full_path are made; ok is false when one of them is a file
MakeParentsNot(disk, loc) == [disk |-> disk, ok |-> TRUE]

RECURSIVE MakeParents(_, _)
MakeParents(disk, loc) ==
    LET dir == Parent(loc)
    IN  IF IsDir(NodeAt(disk, dir)) THEN [disk |-> disk, ok |-> TRUE]
        ELSE IF IsFile(NodeAt(disk, dir)) \/ dir \notin Locs THEN [disk |-> disk, ok |-> FALSE]
        ELSE LET above == MakeParents(disk, dir)
             IN  IF above.ok THEN [disk |-> [above.disk EXCEPT ![dir] = DirNode], ok |-> TRUE]
                 ELSE above

\* the checks of read_file and delete_file on the target
TargetCheckExistsOnly(disk, full_path) ==
    IF ~Exists(disk, full_path) THEN "NotFound" ELSE "ok"

TargetCheck(disk, full_path) ==
    IF ~Exists(disk, full_path) THEN "NotFound"
    ELSE IF ~IsFile(NodeAt(disk, full_path)) THEN "InvalidTarget"
    ELSE "ok"

\* The characters of the two contents a file may hold: 0 ends its line with
\* a line feed, 1 with a carriage return and a line feed.
Text(c) == IF c = 0 THEN <<"s", "LF">> ELSE <<"s", "CR", "LF">>

\* open(full_path, 'r').read(): text mode with universal newlines, a carriage
\* return with or without a line feed after it is read as one line feed
RECURSIVE ReadText(_)
ReadText(t) ==
    IF t = <<>> THEN <<>>
    ELSE IF Head(t) = "CR"
    THEN IF Len(t) > 1 /\ t[2] = "LF" THEN <<"LF">> \o ReadText(Tail(Tail(t)))
         ELSE <<"LF">> \o ReadText(Tail(t))
    ELSE <<Head(t)>> \o ReadText(Tail(t))

\* what an operation returned; content is the content a write was given or
\* the content of the file a read opened, text the characters a read returned
FoResult(op, kind, content) ==
    [op |-> op, kind |-> kind, content |-> content, text |-> <<>>]
NoFoRes == FoResult("none", "none", 0)

FoIdle ==
    /\ foRoot = FALSE /\ fs = [loc \in Locs |-> NoNode]
    /\ foRes = NoFoRes /\ foPre = fs /\ foArg = <<>> /\ foTarget = <<>>

\* Any disk: the root not yet made (then no project exists), or the root
\* with project p and project q present or not.
FoInit ==
    /\ foRoot \in BOOLEAN /\ fs \in Disks
    /\ ~foRoot => (~Exists(fs, ProjectDir("p")) /\ ~Exists(fs, ProjectDir("q")))
    /\ foRes = NoFoRes /\ foPre = fs /\ foArg = <<>> /\ foTarget = <<>>

\* the end of a file operation on project p; local_models_root() has made
\* the root
FoReturn(res, path, target, disk) ==
    /\ foRes' = res /\ foArg' = path /\ foTarget' = target /\ fs' = disk
    /\ foPre' = fs /\ foRoot' = TRUE

list_files ==
    \E directory_path \in FilePaths \cup {<<>>} :
      LET target_path == Resolve("p", directory_path)
          ret(kind) == FoReturn(FoResult("list", kind, 0), directory_path, target_path, fs)
      IN  IF ~Exists(fs, ProjectDir("p")) THEN ret("NotFound")
          ELSE IF directory_path # <<>> /\ ~Exists(fs, target_path) THEN ret("NotFound")
          ELSE IF ~IsDir(NodeAt(fs, target_path)) THEN ret("ListFailed")
          ELSE ret("listing")

read_file ==
    \E file_path \in FilePaths :
      LET full_path == Resolve("p", file_path)
          ret(kind, c) == FoReturn(FoResult("read", kind, c), file_path, full_path, fs)
      IN  IF ~Exists(fs, ProjectDir("p")) THEN ret("NotFound", 0)
          ELSE IF TargetCheck(fs, full_path) # "ok" THEN ret(TargetCheck(fs, full_path), 0)
          ELSE IF ~IsFile(NodeAt(fs, full_path)) THEN ret("ReadFailed", 0)
          ELSE FoReturn([FoResult("read", "content", NodeAt(fs, full_path).data)
                            EXCEPT !.text = ReadText(Text(NodeAt(fs, full_path).data))],
                        file_path, full_path, fs)

write_file ==
    \E file_path \in FilePaths, content \in {0, 1} :
      LET full_path == Resolve("p", file_path)
          made == MakeParents(fs, full_path)
          ret(kind, disk) == FoReturn(FoResult("write", kind, content), file_path, full_path, disk)
      IN  IF ~Exists(fs, ProjectDir("p")) THEN ret("NotFound", fs)
          ELSE IF ~made.ok THEN ret("raised", fs)
          ELSE IF full_path \notin Locs \/ ~IsDir(NodeAt(made.disk, Parent(full_path)))
                  \/ IsDir(NodeAt(made.disk, full_path))
          THEN ret("WriteFailed", made.disk)
          ELSE ret("success", [made.disk EXCEPT ![full_path] = FileNode(content)])

delete_file ==
    \E file_path \in FilePaths :
      LET full_path == Resolve("p", file_path)
          ret(kind, disk) == FoReturn(FoResult("delete", kind, 0), file_path, full_path, disk)
      IN  IF ~Exists(fs, ProjectDir("p")) THEN ret("NotFound", fs)
          ELSE IF TargetCheck(fs, full_path) # "ok" THEN ret(TargetCheck(fs, full_path), fs)
          ELSE IF ~IsFile(NodeAt(fs, full_path)) THEN ret("DeleteFailed", fs)
          ELSE ret("success", [fs EXCEPT ![full_path] = NoNode])

\* -------------------------------------------------------------- auth login
\* The server url is text: the base, "/mcp?" and the query parameters joined
\* by "&"; TokenKey is the text before the value of the token parameter.
TokenKey == "access_token="
ServerUrls ==
    { <<"https://h", "/mcp?">> \o before \o <<TokenKey, "o">> \o after
        : before \in {<<>>, <<"x=1", "&">>}, after \in {<<>>, <<"&", "y=2">>} }

\* What http_post returns for the login request: a structure with an
\* access_token (a token of plain characters, one holding "&", an empty one)
\* or a structure without.
Tokens == { <<"n">>, <<"m", ".", "n">>, <<"n", "&", "m">>, <<>> }
LoginResponses ==
    { [has_token |-> TRUE, token |-> t] : t \in Tokens }
    \cup { [has_token |-> FALSE, token |-> <<>>] }
NoLoginResponse == [has_token |-> FALSE, token |-> <<"none">>]

\* [^&]+ at the head of s: the longest run of characters other than "&"
RECURSIVE ValueRun(_)
ValueRun(s) ==
    IF s = <<>> \/ Head(s) = "&" THEN <<>> ELSE <<Head(s)>> \o ValueRun(Tail(s))

\* re.search(r"access_token=([^&]+)", url): the group of the first match, or
\* None
NoToken == <<"None">>
RECURSIVE extract_token_from_url(_)
extract_token_from_url(url) ==
    IF url = <<>> THEN NoToken
    ELSE IF Head(url) = TokenKey /\ ValueRun(Tail(url)) # <<>> THEN ValueRun(Tail(url))
    ELSE extract_token_from_url(Tail(url))

\* server_url.split("/mcp?")[0].rstrip("/")
extract_base_url(server_url) ==
    LET RECURSIVE Before(_)
        Before(u) ==
            IF u = <<>> \/ Head(u) = "/mcp?" THEN <<>> ELSE <<Head(u)>> \o Before(Tail(u))
        RECURSIVE RStripSlash(_)
        RStripSlash(u) ==
            IF u # <<>> /\ u[Len(u)] = "/" THEN RStripSlash(SubSeq(u, 1, Len(u) - 1)) ELSE u
    IN  RStripSlash(Before(server_url))

\* re.sub(r"access_token=[^&]+", f"access_token={new_token}", server_url):
\* every match is replaced
RECURSIVE SubToken(_, _)
SubToken(server_url, new_token) ==
    IF server_url = <<>> THEN <<>>
    ELSE IF Head(server_url) = TokenKey /\ ValueRun(Tail(server_url)) # <<>>
    THEN LET rest == Tail(server_url)
         IN  <<TokenKey>> \o new_token
             \o SubToken(SubSeq(rest, Len(ValueRun(rest)) + 1, Len(rest)), new_token)
    ELSE <<Head(server_url)>> \o SubToken(Tail(server_url), new_token)

AuthIdle ==
    /\ cfgUrl = <<>> /\ authPre = <<>> /\ authResp = NoLoginResponse
    /\ authRes = "none" /\ authCalls = 0

\* The configuration holds a server url with a token.
AuthInit ==
    /\ cfgUrl \in ServerUrls /\ authPre = cfgUrl /\ authResp = NoLoginResponse
    /\ authRes = "none" /\ authCalls = 0

\* handle_auth_operations with the command login: get_auth_config, the login
\* request, and the configuration saved with the new url
login ==
    /\ authCalls < MaxCalls
    /\ \E response \in LoginResponses :
         /\ authResp' = response
         /\ IF extract_token_from_url(cfgUrl) = NoToken
            THEN authRes' = "None" /\ cfgUrl' = cfgUrl
            ELSE IF response.has_token
            THEN authRes' = "True" /\ cfgUrl' = SubToken(cfgUrl, response.token)
            ELSE authRes' = "False" /\ cfgUrl' = cfgUrl
    /\ authPre' = cfgUrl
    /\ authCalls' = authCalls + 1

\* --------------------------------------------------------- specifications
InitDownload == DlInit /\ SemIdle /\ CurlIdle /\ RsIdle /\ LsIdle /\ GitIdle /\ FoIdle /\ AuthIdle
NextDownload == download_dbt_project /\ UNCHANGED <<semVars, curlVars, rsVars, lsVars, gitVars, foVars, authVars>>
SpecDownload == InitDownload /\ [][NextDownload]_vars

InitSemantic == SemInit /\ DlIdle /\ CurlIdle /\ RsIdle /\ LsIdle /\ GitIdle /\ FoIdle /\ AuthIdle
NextSemantic == download_semantic_project /\ UNCHANGED <<dlVars, curlVars, rsVars, lsVars, gitVars, foVars, authVars>>
SpecSemantic == InitSemantic /\ [][NextSemantic]_vars

InitCurl == CurlIdle /\ DlIdle /\ SemIdle /\ RsIdle /\ LsIdle /\ GitIdle /\ FoIdle /\ AuthIdle
NextCurl ==
    \/ http_get /\ UNCHANGED <<dlVars, semVars, rsVars, lsVars, gitVars, foVars, authVars>>
    \/ curl_attempt /\ UNCHANGED <<dlVars, semVars, rsVars, lsVars, gitVars, foVars, authVars>>
    \/ curl_sleep /\ UNCHANGED <<dlVars, semVars, rsVars, lsVars, gitVars, foVars, authVars>>
    \/ curl_exhausted /\ UNCHANGED <<dlVars, semVars, rsVars, lsVars, gitVars, foVars, authVars>>
    \/ http_return /\ UNCHANGED <<dlVars, semVars, rsVars, lsVars, gitVars, foVars, authVars>>
SpecCurl == InitCurl /\ [][NextCurl]_vars
\* The loop is sequential code: a step that can be taken is taken.
FairSpecCurl == SpecCurl /\ WF_vars(NextCurl)

InitRefresh == RsIdle /\ DlIdle /\ SemIdle /\ CurlIdle /\ LsIdle /\ GitIdle /\ FoIdle /\ AuthIdle
NextRefresh ==
    \/ refresh_sources /\ UNCHANGED <<dlVars, semVars, curlVars, lsVars, gitVars, foVars, authVars>>
    \/ rs_poll /\ UNCHANGED <<dlVars, semVars, curlVars, lsVars, gitVars, foVars, authVars>>
    \/ rs_sleep /\ UNCHANGED <<dlVars, semVars, curlVars, lsVars, gitVars, foVars, authVars>>
    \/ rs_timeout /\ UNCHANGED <<dlVars, semVars, curlVars, lsVars, gitVars, foVars, authVars>>
SpecRefresh == InitRefresh /\ [][NextRefresh]_vars
\* the poll loop is not held up: each of its steps is taken once it can be
FairSpecRefresh == SpecRefresh /\ WF_vars(NextRefresh)

InitSources == LsInit /\ DlIdle /\ SemIdle /\ CurlIdle /\ RsIdle /\ GitIdle /\ FoIdle /\ AuthIdle
NextSources ==
    \/ list_sources /\ UNCHANGED <<dlVars, semVars, curlVars, rsVars, gitVars, foVars, authVars>>
    \/ ls_check /\ UNCHANGED <<dlVars, semVars, curlVars, rsVars, gitVars, foVars, authVars>>
    \/ ls_clear /\ UNCHANGED <<dlVars, semVars, curlVars, rsVars, gitVars, foVars, authVars>>
    \/ ls_write_json /\ UNCHANGED <<dlVars, semVars, curlVars, rsVars, gitVars, foVars, authVars>>
    \/ ls_mirror /\ UNCHANGED <<dlVars, semVars, curlVars, rsVars, gitVars, foVars, authVars>>
    \/ ls_return /\ UNCHANGED <<dlVars, semVars, curlVars, rsVars, gitVars, foVars, authVars>>
    \/ time_passes /\ UNCHANGED <<dlVars, semVars, curlVars, rsVars, gitVars, foVars, authVars>>
SpecSources == InitSources /\ [][NextSources]_vars

InitGit == GitInit /\ DlIdle /\ SemIdle /\ CurlIdle /\ RsIdle /\ LsIdle /\ FoIdle /\ AuthIdle
NextGit ==
    \/ init_repository /\ UNCHANGED <<dlVars, semVars, curlVars, rsVars, lsVars, foVars, authVars>>
    \/ get_status /\ UNCHANGED <<dlVars, semVars, curlVars, rsVars, lsVars, foVars, authVars>>
    \/ commit_changes /\ UNCHANGED <<dlVars, semVars, curlVars, rsVars, lsVars, foVars, authVars>>
    \/ project_commit /\ UNCHANGED <<dlVars, semVars, curlVars, rsVars, lsVars, foVars, authVars>>
    \/ reset_changes /\ UNCHANGED <<dlVars, semVars, curlVars, rsVars, lsVars, foVars, authVars>>
    \/ get_history /\ UNCHANGED <<dlVars, semVars, curlVars, rsVars, lsVars, foVars, authVars>>
    \/ edit_workspace /\ UNCHANGED <<dlVars, semVars, curlVars, rsVars, lsVars, foVars, authVars>>
SpecGit == InitGit /\ [][NextGit]_vars

InitFiles == FoInit /\ DlIdle /\ SemIdle /\ CurlIdle /\ RsIdle /\ LsIdle /\ GitIdle /\ AuthIdle
NextFiles ==
    \/ list_files /\ UNCHANGED <<dlVars, semVars, curlVars, rsVars, lsVars, gitVars, authVars>>
    \/ read_file /\ UNCHANGED <<dlVars, semVars, curlVars, rsVars, lsVars, gitVars, authVars>>
    \/ write_file /\ UNCHANGED <<dlVars, semVars, curlVars, rsVars, lsVars, gitVars, authVars>>
    \/ delete_file /\ UNCHANGED <<dlVars, semVars, curlVars, rsVars, lsVars, gitVars, authVars>>
SpecFiles == InitFiles /\ [][NextFiles]_vars

InitAuth == AuthInit /\ DlIdle /\ SemIdle /\ CurlIdle /\ RsIdle /\ LsIdle /\ GitIdle /\ FoIdle
NextAuth == login /\ UNCHANGED <<dlVars, semVars, curlVars, rsVars, lsVars, gitVars, foVars>>
SpecAuth == InitAuth /\ [][NextAuth]_vars

\* ------------------------------------------------------- list-sources claims
\* The cache-validity predicate as the specification words it: the cache file
\* exists, its age is under 86400 seconds, and its parsed content is a
\* non-empty sequence.
CacheValid(c) ==
    c.kind = "file" /\ c.age < 86400 /\ c.value.type = "list" /\ Len(c.value.items) > 0

LsFinished == lsCalls > 0 /\ lsPc \in {"done", "crashed"}

\* The files of the cache directory are those of before the call, untouched
\* (the cache file may since have grown older).
LsDirUntouched ==
    /\ lsTouched = {} /\ lsDeleted = FALSE
    /\ [lsCache EXCEPT !.age = 0] = [lsPre.cache EXCEPT !.age = 0]
    /\ lsYaml = lsPre.yaml /\ lsStray = lsPre.stray

\* No file written before the current call is left in the cache directory.
LsNothingSurvives ==
    /\ lsStray = FALSE
    /\ lsCache.kind = "file" => lsCache.gen = lsCalls
    /\ \A n \in YamlNames : lsYaml[n].kind = "file" => lsYaml[n].gen = lsCalls

\* C5: a finished list-sources call has returned the cached content, having
\* deleted and rewritten no file of the cache directory, exactly when the
\* cache file existed, was under 86400 seconds old and held a non-empty list.
C5_CachedExactlyWhenValid ==
    LsFinished =>
        ((/\ lsRet = [kind |-> "value", value |-> lsPre.cache.value]
          /\ LsDirUntouched)
         <=> CacheValid(lsPre.cache))

C5_Witness ==
    /\ lsPc = "done" /\ lsCalls = 1
    /\ lsPre.cache = CacheFile(JList(<<Db1>>), 86400 - 1, 0)
    /\ lsResp = JList(<<Db(<<"d1">>, <<"s">>)>>)
    /\ lsRet = [kind |-> "value", value |-> JList(<<Db1>>)]
    /\ lsTouched = {} /\ lsDeleted = FALSE
    /\ lsPre.yaml[YamlFilename(Db1)].kind = "file" /\ lsYaml = lsPre.yaml

\* C6: whenever the cache file is absent, older than 24 hours or malformed
\* (fresh but not parseable to a non-empty list, text that is not JSON
\* included), the call deletes every file of the cache directory, then writes
\* the fetched response as the JSON cache, and only then writes descriptor
\* files; after the call no file from before the call survives.
C6_InvalidCacheIsReplaced ==
    (lsCalls > 0 /\ ~CacheValid(lsPre.cache)) =>
        /\ lsPc = "write_json" =>
              lsDeleted /\ lsCache = NoCache /\ lsStray = FALSE
              /\ \A n \in YamlNames : lsYaml[n] = NoYaml
        /\ lsPc = "mirror" =>
              lsDeleted /\ lsCache = CacheFile(lsResp, 0, lsCalls) /\ LsNothingSurvives
        /\ lsPc \in {"done", "crashed"} =>
              lsDeleted /\ lsCache.kind = "file" /\ lsCache.value = lsResp
              /\ LsNothingSurvives

\* C7 as stated: when the live response is not a list and the cache is not
\* valid, the call returns no result and writes nothing: the JSON cache and
\* the descriptor files of before the call are unchanged.
C7_NonListWritesNothing ==
    (LsFinished /\ lsResp.type # "list" /\ ~CacheValid(lsPre.cache)) =>
        /\ lsRet.kind # "value"
        /\ LsDirUntouched

\* C7, amended: when the live response is not a list and the cache is not
\* valid, the call returns no result and writes no descriptor file; but when
\* it returns it has deleted every file of the cache directory and written
\* the response as the new JSON cache.
C7_NonListWritesNoDescriptor ==
    (LsFinished /\ lsResp.type # "list" /\ ~CacheValid(lsPre.cache)) =>
        /\ lsRet.kind \in {"None", "raised"}
        /\ lsTouched \cap YamlNames = {}
        /\ lsRet.kind = "None" =>
              /\ lsDeleted /\ lsTouched = {JsonName}
              /\ lsCache.kind = "file" /\ lsCache.value = lsResp /\ lsCache.gen = lsCalls
              /\ lsStray = FALSE
              /\ \A n \in YamlNames : lsYaml[n] = NoYaml

C7_Witness ==
    /\ lsPc = "done" /\ lsCalls = 1
    /\ lsPre.cache = CacheFile(JList(<<Db1>>), 86400, 0)
    /\ lsPre.yaml[YamlFilename(Db1)] = YamlFile(Db1, 0)
    /\ HasKey(lsResp, "error")
    /\ lsRet.kind = "None"
    /\ lsCache = CacheFile(lsResp, 0, 1)
    /\ \A n \in YamlNames : lsYaml[n] = NoYaml

\* ------------------------------------------------------- transport claims
\* the events of the loop so far: attempts and sleeps alternate, starting with
\* an attempt, and once run_curl_command has returned the last event is an
\* attempt
SleepsOnlyBetweenAttempts ==
    /\ \A i \in 1..Len(curlLog) : (curlLog[i] = "sleep") <=> (i % 2 = 0)
    /\ curlPc \in {"returned", "done"} /\ curlLog # <<>> =>
           curlLog[Len(curlLog)] = "attempt"
    /\ curlPc \in {"returned", "done"} => Len(curlLog) = 2 * Len(curlKinds) - (IF curlKinds = <<>> THEN 0 ELSE 1)

\* every attempt that was followed by another attempt had an outcome in `kinds`,
\* and an attempt with any other outcome is the last, after which
\* run_curl_command has returned
RepeatedOnlyAfter(kinds) ==
    /\ \A i \in 1..(Len(curlKinds) - 1) : curlKinds[i] \in kinds
    /\ \A i \in 1..Len(curlKinds) :
           curlKinds[i] \notin kinds => (i = Len(curlKinds) /\ curlPc \in {"returned", "done"})

\* C8 as stated: at most `retries` attempts, sleeps only between two attempts,
\* and an attempt is repeated only after a connection-refused failure.
C8_RetryOnlyOnRefused ==
    /\ Len(curlKinds) <= curlRetries
    /\ SleepsOnlyBetweenAttempts
    /\ RepeatedOnlyAfter({"refused"})

\* C8 as amended: at most `retries` attempts, sleeps only between two attempts,
\* an attempt is repeated only after a connection-refused failure or after
\* running the command raised, and every call returns.
C8_RetryOnRefusedOrRaise ==
    /\ [](/\ Len(curlKinds) <= curlRetries
          /\ SleepsOnlyBetweenAttempts
          /\ RepeatedOnlyAfter({"refused", "raise"}))
    /\ (curlPc = "loop") ~> (curlPc = "done")

\* a call that used all three attempts, one of them after an exception, with
\* two sleeps
C8_Witness ==
    /\ curlPc = "done"
    /\ curlRetries = 3
    /\ curlKinds = <<"refused", "raise", "refused">>
    /\ curlLog = <<"attempt", "sleep", "attempt", "sleep", "attempt">>
    /\ HasKey(httpRes, "error")

\* C9: http_get returns a structure: the decoded value of a successful JSON
\* body (an empty list or object included), {data: raw text} for a successful
\* body that is not JSON, and a structure with an error key for every failure.
C9_ReturnsDecodedJson ==
    curlPc = "done" =>
        IF curlRet.success
        THEN IF curlOut.body.json
             THEN httpRes = curlOut.body.value
             ELSE httpRes = JDict({<<"data", curlOut.body.text>>})
        ELSE HasKey(httpRes, "error")

\* C30: over any sequence of calls, a value returned from the cache (the call
\* wrote and deleted nothing) is a list that is not empty; and when, after a
\* call, the JSON cache file written by a call lies in the directory with
\* descriptor files, every descriptor file was written by the call that wrote
\* the JSON cache file, from a database of the response that file holds.
C30_CacheAndDescriptorsAgree ==
    LsFinished =>
        /\ (lsRet.kind = "value" /\ lsTouched = {}) =>
               /\ lsRet.value.type = "list" /\ Len(lsRet.value.items) > 0
               /\ lsRet.value = lsCache.value
        /\ (lsCache.kind = "file" /\ lsCache.gen > 0) =>
               \A n \in YamlNames :
                   lsYaml[n].kind = "file" =>
                       /\ lsYaml[n].gen = lsCache.gen
                       /\ lsCache.value.type = "list"
                       /\ \E i \in 1..Len(lsCache.value.items) :
                              lsCache.value.items[i] = lsYaml[n].db
                       /\ YamlFilename(lsYaml[n].db) = n

\* the second call returns from the cache what the first call stored, with
\* the descriptor files of the first call beside it
C30_Witness ==
    /\ lsPc = "done" /\ lsCalls = 2
    /\ lsRet.kind = "value" /\ lsTouched = {}
    /\ lsCache.kind = "file" /\ lsCache.gen = 1
    /\ \E n \in YamlNames : lsYaml[n].kind = "file"

\* ---------------------------------------------------------- poller claims
\* C10: a poll whose status is in the terminal set ends the operation at once
\* with that poll's response, no sleep and no further poll following it; a poll
\* whose status is not terminal is followed by exactly one sleep of one
\* interval before the next poll; so a terminal status on the first poll
\* returns with no sleep at all.
C10_TerminalPollReturnsAtOnce ==
    /\ rsSlept = PollInterval * rsSleeps
    /\ rsPc = "loop" => rsSleeps = rsPolls
    /\ rsPc = "sleep" => (rsSleeps = rsPolls - 1 /\ rsLastPoll.status \notin rsTerminal)
    /\ rsTerminalSeen =>
           /\ rsPc = "done"
           /\ rsRet = [kind |-> "response", resp |-> rsLastPoll]
           /\ rsSleeps = rsPolls - 1

\* "completed" on the first poll with the default terminal set: returned with
\* no sleep
C10_Witness ==
    /\ rsPc = "done"
    /\ rsTerminal = DefaultCompleteStatuses
    /\ rsPolls = 1 /\ rsSleeps = 0 /\ rsElapsed <= MaxLatency
    /\ rsLastPoll.status = "completed"
    /\ rsRet = [kind |-> "response", resp |-> rsLastPoll]

\* C11: while every poll answers a structure whose status is not terminal,
\* polling stops once the elapsed time has reached the timeout and the result
\* returned has the status timeout; the number of polls never exceeds
\* timeout/interval rounded up, and the loop always ends.
C11_TimeoutEndsPolling ==
    /\ [](/\ rsPolls <= (PollTimeout + PollInterval - 1) \div PollInterval
          /\ rsRet.kind = "timeout" =>
                (rsPc = "done" /\ rsElapsed >= PollTimeout /\ ~rsTerminalSeen)
          /\ (rsPc = "done" /\ rsPolls > 0 /\ rsLastPoll.kind = "dict" /\ ~rsTerminalSeen) =>
                rsRet.kind = "timeout"
          /\ (rsPc = "done" /\ rsTrig.kind = "task" /\ rsPolls = 0) => rsRet.kind = "timeout"
          /\ rsPc \in {"loop", "sleep"} => rsRet = NoRet)
    /\ (rsPc = "loop") ~> (rsPc = "done")

\* thirty polls none of which took any time, none terminal: the timeout
\* result
C11_Witness ==
    /\ rsPc = "done" /\ rsRet.kind = "timeout"
    /\ rsPolls = (PollTimeout + PollInterval - 1) \div PollInterval
    /\ rsSleeps = rsPolls /\ rsElapsed = PollTimeout
    /\ rsLastPoll.status = "running"

\* C29: a status request that fails in transport (a structure with an error
\* key and no status) does not end the operation: it returns nothing then,
\* one sleep follows and the loop goes on, and the operation ends only on a
\* terminal status or on the timeout; a refresh request answered with an
\* error key or without a task_id returns no result and no status request is
\* issued.
C29_TransportFailureKeepsPolling ==
    /\ rsLastPoll.error =>
          /\ rsPc \in {"sleep", "loop"} \/ (rsPc = "done" /\ rsRet.kind = "timeout")
          /\ rsPc \in {"sleep", "loop"} => rsRet = NoRet
          /\ rsPc = "loop" => rsSleeps = rsPolls
    /\ (rsPc = "done" /\ rsPolls > 0 /\ rsLastPoll.kind = "dict") =>
          (rsTerminalSeen \/ rsRet.kind = "timeout")
    /\ rsTrig.kind \in {"error", "no_task"} =>
          (rsPc = "done" /\ rsRet.kind = "None" /\ rsPolls = 0)

\* a failed status request has been slept on and the next request is due
C29_Witness ==
    /\ rsLastPoll.error
    /\ rsPc = "loop" /\ WithinTimeout(rsElapsed)
    /\ rsPolls > 0 /\ rsSleeps = rsPolls

\* C12: the interval slept, the timeout and the terminal-status set are those
\* of the trigger response's instructions when it supplies them, and the
\* defaults (2, 60, {completed, failed, error}) otherwise.
C12_ParametersFromServer ==
    rsTrig.kind = "task" =>
        LET ins == rsTrig.instructions
            interval == IF ins.has_timing THEN ins.interval ELSE 2
            timeout == IF ins.has_timing THEN ins.timeout ELSE 60
            terminal == IF ins.has_statuses THEN ins.statuses
                        ELSE {"completed", "failed", "error"}
        IN  /\ rsTerminal = terminal
            /\ rsSlept = interval * rsSleeps
            /\ rsRet.kind = "timeout" => rsElapsed >= timeout
            /\ rsPc = "loop" /\ rsPolls > 0 => rsElapsed < timeout + interval + MaxLatency

\* ------------------------------------------------------------- git claims
\* the last operation ran no git command and left .git and the files as they
\* were
GitNothingDone ==
    gitCmds = <<>> /\ gitMeta = gitPre.meta /\ gitFiles = gitPre.files

\* C13: status, commit, reset and history return NotFound when the project
\* directory is absent, and otherwise NotInitialized when .git is absent,
\* running no git command and changing nothing; init returns NotFound only
\* when the directory is absent, and never NotInitialized.
C13_GitPreconditions ==
    /\ gitRes.op \in {"status", "commit", "reset", "history"} =>
          /\ ~gitProj => (gitRes.kind = "NotFound" /\ GitNothingDone)
          /\ (gitProj /\ ~gitPre.meta) => (gitRes.kind = "NotInitialized" /\ GitNothingDone)
          /\ (gitProj /\ gitPre.meta) => gitRes.kind \notin {"NotFound", "NotInitialized"}
    /\ gitRes.op = "init" =>
          /\ gitRes.kind = "NotFound" <=> ~gitProj
          /\ gitRes.kind # "NotInitialized"

C13_Witness ==
    /\ gitRes.op = "reset" /\ gitRes.kind = "NotInitialized"
    /\ gitProj /\ ~gitMeta /\ gitFiles[<<"f", ".sql">>] = "untracked" /\ gitCmds = <<>>

\* C14 as stated: init on a project that has .git runs no git command, changes
\* nothing and returns the 'already exists' status; and after any init that
\* was not a NotFound error every later init is such a no-op.
C14_InitOnceThenNoOp ==
    (gitRes.op = "init" /\ (gitPre.meta \/ gitPriorInits \ {"NotFound"} # {})) =>
        gitRes.kind = "info" /\ GitNothingDone

\* C14, amended: init on a project that has .git is that no-op; so after any
\* init that created .git (it returned success, the warning of a failed
\* initial commit, or 'already exists') every later init is a no-op.
C14_InitNoOpOnceCreated ==
    (gitRes.op = "init"
     /\ (gitPre.meta \/ gitPriorInits \cap {"success", "warning", "info"} # {})) =>
        gitRes.kind = "info" /\ GitNothingDone

C14_Witness ==
    /\ gitRes.op = "init" /\ gitRes.kind = "info" /\ gitCmds = <<>>
    /\ "warning" \in gitPriorInits /\ "CommandFailed" \in gitPriorInits
    /\ gitFiles[<<"f", ".sql">>] = "added"

\* the lines git printed that landed in a list, and their paths in order
LandedIn(list) ==
    SelectSeq([i \in 1..Len(gitOut) |-> i], LAMBDA i : gitLanded[i] = list)
PathsLandedIn(list) ==
    [k \in 1..Len(LandedIn(list)) |-> gitOut[LandedIn(list)[k]].path]

\* C15: status sends a line whose code is ?? to untracked_files, one whose
\* code starts with M to modified_files, one whose code starts with A to
\* staged_files; every line is in at most one list; has_changes is true
\* exactly when one of the three lists is not empty.
C15_StatusClassification ==
    gitRes.kind = "status" =>
        /\ \A i \in 1..Len(gitOut) :
              /\ gitOut[i].code = <<"?", "?">> => gitLanded[i] = "untracked"
              /\ gitOut[i].code[1] = "M" => gitLanded[i] = "modified"
              /\ gitOut[i].code[1] = "A" => gitLanded[i] = "staged"
        /\ Len(gitRes.modified_files) = Len(LandedIn("modified"))
        /\ Len(gitRes.staged_files) = Len(LandedIn("staged"))
        /\ Len(gitRes.untracked_files) = Len(LandedIn("untracked"))
        /\ gitRes.has_changes <=>
              (gitRes.modified_files # <<>> \/ gitRes.staged_files # <<>>
               \/ gitRes.untracked_files # <<>>)

C15_Witness ==
    /\ gitRes.kind = "status" /\ gitRes.has_changes
    /\ Len(gitOut) = 2
    /\ gitOut[1].code = <<"M", " ">> /\ gitOut[2].code = <<"?", "?">>
    /\ gitRes.modified_files = << <<"f", ".sql">> >>
    /\ gitRes.untracked_files = << <<"g", "h">> >>

\* C16: a clean repository gives three empty lists and has_changes false;
\* and every file name reported is exactly the path of its status line,
\* whatever the code of the line and its position in the output.
C16_ReportedNamesAreThePaths ==
    gitRes.kind = "status" =>
        /\ gitOut = <<>> =>
              (/\ gitRes.modified_files = <<>> /\ gitRes.staged_files = <<>>
               /\ gitRes.untracked_files = <<>> /\ ~gitRes.has_changes)
        /\ gitRes.modified_files = PathsLandedIn("modified")
        /\ gitRes.staged_files = PathsLandedIn("staged")
        /\ gitRes.untracked_files = PathsLandedIn("untracked")

\* the files init found, in the order git lists them
FilesFound(files, st) == SelectSeq(GitPaths, LAMBDA p : files[p] = st)

\* C17 as stated: status right after an init that found files and no .git
\* reports no change when the initial commit succeeded, and has_changes with
\* the files under untracked_files when .git was created and the commit has
\* not been made.
C17_UntrackedUntilCommitted ==
    (gitRes.kind = "status" /\ gitPrev.op = "init") =>
        /\ gitPrev.kind = "success" =>
              (/\ ~gitRes.has_changes /\ gitRes.modified_files = <<>>
               /\ gitRes.staged_files = <<>> /\ gitRes.untracked_files = <<>>)
        /\ gitPrev.kind = "warning" =>
              (/\ gitRes.has_changes
               /\ gitRes.untracked_files = FilesFound(gitPrev.files, "untracked"))

\* C17, amended: after a successful initial commit status reports no
\* change; after an init that created .git and made no commit it reports
\* has_changes with every file found either under staged_files (git add .
\* took effect) or under untracked_files (it did not).
C17_StagedUntilCommitted ==
    (gitRes.kind = "status" /\ gitPrev.op = "init") =>
        /\ gitPrev.kind = "success" =>
              (/\ ~gitRes.has_changes /\ gitRes.modified_files = <<>>
               /\ gitRes.staged_files = <<>> /\ gitRes.untracked_files = <<>>)
        /\ gitPrev.kind = "warning" =>
              (/\ gitRes.has_changes /\ gitRes.modified_files = <<>>
               /\ gitRes.staged_files = FilesFound(gitFiles, "added")
               /\ gitRes.untracked_files = FilesFound(gitFiles, "untracked")
               /\ \A p \in GitPathSet :
                     gitPrev.files[p] = "untracked" => gitFiles[p] \in {"added", "untracked"}
               /\ gitRes.staged_files = <<>> \/ gitRes.untracked_files = <<>>)

C17_Witness ==
    /\ gitRes.kind = "status" /\ gitPrev.op = "init" /\ gitPrev.kind = "warning"
    /\ gitPrev.files = [p \in GitPathSet |-> "untracked"]
    /\ gitRes.staged_files = GitPaths /\ gitRes.untracked_files = <<>>
    /\ gitRes.has_changes

\* ----------------------------------------------------- file store claims
\* the project directory and the target of the last file operation, as they
\* were before it
FoProjectExisted == Exists(foPre, ProjectDir("p"))
FoTargetExisted == Exists(foPre, foTarget)
\* the locations strictly between the project directory and the target
FoBetween ==
    { loc \in Locs : /\ InsideProject("p", loc) /\ loc # ProjectDir("p")
                     /\ Len(loc) < Len(foTarget)
                     /\ SubSeq(foTarget, 1, Len(loc)) = loc }

\* C18: read_file and delete_file return NotFound when the project directory
\* or the target is absent and InvalidTarget when the target is a directory;
\* list_files returns NotFound when the project or the subdirectory asked
\* for is absent; in each of these cases nothing on the disk has changed.
C18_FileErrorsChangeNothing ==
    /\ foRes.op \in {"read", "delete"} =>
          /\ (~FoProjectExisted \/ ~FoTargetExisted) => foRes.kind = "NotFound"
          /\ (FoProjectExisted /\ IsDir(NodeAt(foPre, foTarget))) =>
                foRes.kind = "InvalidTarget"
          /\ foRes.kind \in {"NotFound", "InvalidTarget"} => fs = foPre
    /\ foRes.op = "list" =>
          /\ (~FoProjectExisted \/ (foArg # <<>> /\ ~FoTargetExisted)) =>
                foRes.kind = "NotFound"
          /\ fs = foPre

\* delete_file on the directory a that holds the file a/a: InvalidTarget,
\* and a/a is still there
C18_Witness ==
    /\ foRes.op = "delete" /\ foRes.kind = "InvalidTarget" /\ foArg = <<"a">>
    /\ IsDir(fs[ProjectDir("p") \o <<"a">>])
    /\ IsFile(fs[ProjectDir("p") \o <<"a", "a">>])

\* C19: write_file returns NotFound exactly when the project directory is
\* absent, and has then created nothing; when the project exists, a relative
\* path whose file does not exist and whose directories are missing (or are
\* directories) is written with success, the missing directories made.
C19_WriteCreatesParents ==
    foRes.op = "write" =>
        /\ foRes.kind = "NotFound" <=> ~FoProjectExisted
        /\ foRes.kind = "NotFound" => (fs = foPre /\ ~Exists(fs, ProjectDir("p")))
        /\ (/\ FoProjectExisted /\ foArg \in FoRel /\ ~FoTargetExisted
            /\ \A loc \in FoBetween : ~IsFile(foPre[loc])) =>
              /\ foRes.kind = "success"
              /\ fs[foTarget] = FileNode(foRes.content)
              /\ \A loc \in FoBetween : IsDir(fs[loc])
              /\ \A loc \in Locs \ (FoBetween \cup {foTarget}) : fs[loc] = foPre[loc]

\* a/b written into a project that had no directory a
C19_Witness ==
    /\ foRes.op = "write" /\ foRes.kind = "success" /\ foArg = <<"a", "b">>
    /\ foPre[ProjectDir("p") \o <<"a">>] = NoNode
    /\ IsDir(fs[ProjectDir("p") \o <<"a">>])
    /\ fs[ProjectDir("p") \o <<"a", "b">>] = FileNode(1)

\* C20: whatever the path argument, read_file, write_file and delete_file on
\* project p read, create, change or delete only what is inside the
\* directory of p.
C20_ScopedToProject ==
    foRes.op \in {"read", "write", "delete"} =>
        /\ \A loc \in Locs : fs[loc] # foPre[loc] => InsideProject("p", loc)
        /\ foRes.kind \in {"content", "success"} => InsideProject("p", foTarget)

\* C26: in an existing project a read_file that follows a successful
\* write_file of the same path returns exactly the characters that were
\* written; a second successful write_file of the path leaves the file with
\* the second content only; a read_file that follows a successful delete_file
\* of the same path answers that the file is not found.
C26_WriteReadRoundTrip ==
    [][ /\ (foRes.op = "write" /\ foRes.kind = "success"
            /\ foRes'.op = "read" /\ foArg' = foArg)
           => (foRes'.kind = "content" /\ foRes'.text = Text(foRes.content))
        /\ (foRes.op = "write" /\ foRes.kind = "success"
            /\ foRes'.op = "write" /\ foRes'.kind = "success" /\ foArg' = foArg)
           => fs'[foTarget'] = FileNode(foRes'.content)
        /\ (foRes.op = "delete" /\ foRes.kind = "success"
            /\ foRes'.op = "read" /\ foArg' = foArg)
           => foRes'.kind = "NotFound" ]_vars

\* ---------------------------------------------------------- commit claims
\* C25: a project commit given a --models list commits the listed models
\* only: every file that is not one of the selected modified .sql models is,
\* after the commit, as it was before it (not committed, still a change).
C25_CommitsOnlyListedModels ==
    (gitRes.op = "project_commit" /\ gitRes.models # {} /\ gitRes.kind = "success") =>
        \A p \in GitPathSet :
            (\A i \in 1..Len(gitRes.selected) : gitRes.selected[i] # p) =>
                gitFiles[p] = gitPre.files[p]

\* ------------------------------------------------------------ auth claims
\* C21: after a login that succeeded the saved server url is the url of
\* before with the value of its token parameter replaced by the token the
\* server returned, so the token and the base url read from it next are the
\* new token and the base url of before; after a login whose response holds
\* no access_token the saved url is the url of before.
C21_LoginPersistsToken ==
    /\ authRes = "True" =>
          /\ extract_token_from_url(cfgUrl) = authResp.token
          /\ extract_base_url(cfgUrl) = extract_base_url(authPre)
          /\ \E i \in 1..Len(authPre) :
                /\ authPre[i] = TokenKey
                /\ LET old == ValueRun(SubSeq(authPre, i + 1, Len(authPre)))
                   IN  cfgUrl = SubSeq(authPre, 1, i) \o authResp.token
                                \o SubSeq(authPre, i + Len(old) + 1, Len(authPre))
    /\ authRes = "False" => cfgUrl = authPre
====
